---- MODULE Spec2Model ----
(***************************************************************************)
(* A model of the project-management CLI's core: the entity classes User,  *)
(* Project and Task (src/models) with their class-level ID counters, and   *)
(* the DataStore (src/utils/storage.py) that keeps the JSON document in    *)
(* memory and rewrites the whole file after every mutation.                *)
(*                                                                         *)
(* Python values are modelled as follows.                                  *)
(*   str            a sequence of one-character strings                    *)
(*   Optional[x]    <<>> for None, <<x>> otherwise                         *)
(*   list object    an address into heap; two references to one list are   *)
(*                  the same address (to_dict and from_dict share lists)   *)
(*   dict record    a record whose membership list is an address           *)
(*   file content   a record; the records in it hold lists by value        *)
(***************************************************************************)
EXTENDS Integers, Sequences, FiniteSets, TLC

\* ------------------------------------------------------------------ bounds

\* No entity is constructed once its class counter exceeds MaxId.
MaxId == 3

\* No record is appended to a collection that already holds MaxLen records.
MaxLen == 3

\* A run of one store makes at most MaxSteps calls.
MaxSteps == 5

\* A run of several stores on one file makes at most MaxReuseSteps calls.
MaxReuseSteps == 6

\* The calls and writes a run of two racing processes makes at most.
MaxRaceSteps == 7

\* ------------------------------------------------------- universe of values

Procs == {1, 2}
Handles == {1, 2}
Paths == {"store.json", "other.json"}
Keys == {"users", "projects", "tasks"}

\* One address for every list a state can reference, and for those a load
\* creates before the document it replaces is dropped.
Addr == 1 .. (3 * 3 * MaxLen + Cardinality(Procs) + 1)

None == <<>>
Some(x) == <<x>>

NoEntity == [kind |-> "none"]

EmptyHeap == [a \in Addr |-> <<>>]

\* ----------------------------------------------------------- file contents

\* A file content is [kind, doc]; doc is the JSON object's top-level keys
\* with their collections when kind = "object", and <<>> otherwise.

\* The file does not exist.
Missing == [kind |-> "missing", doc |-> <<>>]

\* The file exists and holds nothing but whitespace.
Blank == [kind |-> "blank", doc |-> <<>>]

\* The file holds text that is not JSON.
Garbage == [kind |-> "garbage", doc |-> <<>>]

\* The file holds JSON that is not an object: a list, a number, a string.
NonObject == [kind |-> "nonobject", doc |-> <<>>]

\* The file holds the JSON object doc.
Document(doc) == [kind |-> "object", doc |-> doc]

EmptyData == [users |-> <<>>, projects |-> <<>>, tasks |-> <<>>]

\* ------------------------------------------------------------- sequences

Range(s) == {s[i] : i \in DOMAIN s}

SetMax(S) == CHOOSE m \in S : \A x \in S : x <= m

SetMin(S) == CHOOSE m \in S : \A x \in S : m <= x

Ids(recs) == {recs[i].id : i \in DOMAIN recs}

RemoveAt(s, i) == SubSeq(s, 1, i - 1) \o SubSeq(s, i + 1, Len(s))

\* The index of the first record of recs with the given id, 0 when none has it:
\* where the "for i, x in enumerate(...): if x['id'] == id" loops stop.
FirstIndex(recs, id) ==
    IF \E i \in DOMAIN recs : recs[i].id = id
    THEN SetMin({i \in DOMAIN recs : recs[i].id = id})
    ELSE 0

\* The n smallest addresses outside used, in ascending order.
RECURSIVE Fresh(_, _)
Fresh(used, n) ==
    IF n = 0 THEN <<>>
    ELSE LET a == SetMin(Addr \ used)
         IN <<a>> \o Fresh(used \cup {a}, n - 1)

\* ---------------------------------------------------------------- strings

\* The whitespace characters str.strip() removes, of those the model draws.
IsSpace(ch) == ch \in {" ", "\t", "\n"}

\* str.strip(): the string without its leading and trailing whitespace.
RECURSIVE Strip(_)
Strip(s) ==
    IF s = <<>> THEN <<>>
    ELSE IF IsSpace(s[1]) THEN Strip(Tail(s))
    ELSE IF IsSpace(s[Len(s)]) THEN Strip(SubSeq(s, 1, Len(s) - 1))
    ELSE s

\* str.lower() on the letters the model draws from.
LowerChar(ch) ==
    CASE ch = "A" -> "a"
      [] ch = "B" -> "b"
      [] ch = "L" -> "l"
      [] ch = "O" -> "o"
      [] OTHER -> ch

Lower(s) == [i \in DOMAIN s |-> LowerChar(s[i])]

\* ------------------------------------------------------ the entity classes

\* A constructor that ignores the explicit id it is given.
AssignedId_ignoring_explicit(c, explicit) == c

\* The id a constructor gives the new entity: the class counter c when no
\* explicit id is passed, the explicit id otherwise.
AssignedId(c, explicit) == IF explicit = None THEN c ELSE explicit[1]

\* A constructor that forgets to advance the counter it has used.
AdvancedCounter_forgotten(c, explicit) ==
    IF explicit = None THEN c
    ELSE IF explicit[1] >= c THEN explicit[1] + 1
    ELSE c

\* The class counter after the constructor has run.
AdvancedCounter(c, explicit) ==
    IF explicit = None THEN c + 1
    ELSE IF explicit[1] >= c THEN explicit[1] + 1
    ELSE c

\* User(name, email, user_id), its _projects list being the new list at a.
User(c, name, email, user_id, a) ==
    [kind |-> "user", id |-> AssignedId(c, user_id), name |-> name,
     email |-> email, projects |-> a]

\* dateutil's parser.parse on the date strings the model draws from, whose
\* result is a datetime (here: yyyymmdd); every other string fails to parse.
ParsedDate(date_string) ==
    CASE date_string = "2024-12-31" -> Some(20241231)
      [] date_string = "2024-12-31T00:00:00" -> Some(20241231)
      [] date_string = "Dec 31 2024" -> Some(20241231)
      [] date_string = "2025-01-15" -> Some(20250115)
      [] date_string = "2025-01-15T00:00:00" -> Some(20250115)
      [] OTHER -> None

\* Project._parse_date: the parsed datetime, None if parsing fails.
ParseDate(date_string) == ParsedDate(date_string)

\* parser.parse(date_string) raises an error that _parse_date, which catches
\* ValueError and TypeError, lets through: OverflowError, on a number that
\* does not fit a C long.
ParseRaises(date_string) == date_string = "99999999999999999999999"

\* datetime.isoformat()
IsoFormat(d) ==
    CASE d = 20241231 -> "2024-12-31T00:00:00"
      [] d = 20250115 -> "2025-01-15T00:00:00"

\* Project(title, description, owner_id, due_date, project_id); due_date is
\* None or Some(string).
Project(c, title, description, owner_id, due_date, project_id, a) ==
    [kind |-> "project", id |-> AssignedId(c, project_id), title |-> title,
     description |-> description, owner_id |-> owner_id,
     due_date |-> IF due_date # None /\ due_date[1] # ""
                  THEN ParseDate(due_date[1]) ELSE None,
     tasks |-> a]

VALID_STATUSES == {"pending", "in_progress", "completed"}

\* A constructor that keeps whatever status it is given.
Task_any_status(c, title, project_id, status, assigned_to, task_id, a, hp) ==
    [kind |-> "task", id |-> AssignedId(c, task_id), title |-> title,
     status |-> status,
     project_id |-> project_id,
     assigned_to |-> IF assigned_to # None /\ hp[assigned_to[1]] # <<>>
                     THEN assigned_to[1] ELSE a]

\* Task(title, project_id, status, assigned_to, task_id); assigned_to is None
\* or Some(address of the list passed in), which the task keeps when it is
\* not empty; otherwise its list is the new list at a.
Task(c, title, project_id, status, assigned_to, task_id, a, hp) ==
    [kind |-> "task", id |-> AssignedId(c, task_id), title |-> title,
     status |-> IF status \in VALID_STATUSES THEN status ELSE "pending",
     project_id |-> project_id,
     assigned_to |-> IF assigned_to # None /\ hp[assigned_to[1]] # <<>>
                     THEN assigned_to[1] ELSE a]

\* to_dict: the dict holds the entity's own list object, not a copy.
UserToDict(u) ==
    [id |-> u.id, name |-> u.name, email |-> u.email, projects |-> u.projects]

ProjectToDict(p) ==
    [id |-> p.id, title |-> p.title, description |-> p.description,
     owner_id |-> p.owner_id,
     due_date |-> IF p.due_date # None THEN Some(IsoFormat(p.due_date[1])) ELSE None,
     tasks |-> p.tasks]

TaskToDict(t) ==
    [id |-> t.id, title |-> t.title, status |-> t.status,
     project_id |-> t.project_id, assigned_to |-> t.assigned_to]

\* from_dict: the constructor with the dict's id, then (User, Project) the
\* dict's list object taken as the entity's list.
UserFromDict(c, d, a) ==
    [User(c, d.name, d.email, Some(d.id), a) EXCEPT !.projects = d.projects]

\* Project.from_dict that does not pass the record's due_date on.
ProjectFromDict_without_due_date(c, d, a) ==
    [Project(c, d.title, d.description, d.owner_id, None, Some(d.id), a)
        EXCEPT !.tasks = d.tasks]

ProjectFromDict(c, d, a) ==
    [Project(c, d.title, d.description, d.owner_id, d.due_date, Some(d.id), a)
        EXCEPT !.tasks = d.tasks]

TaskFromDict(c, d, a, hp) ==
    Task(c, d.title, d.project_id, d.status, Some(d.assigned_to), Some(d.id), a, hp)

\* -------------------------------------------------- json.dump, json.loads

\* What json.dump writes for one dict: its list by value.
UserJson(d, hp) ==
    [id |-> d.id, name |-> d.name, email |-> d.email, projects |-> hp[d.projects]]

ProjectJson(d, hp) ==
    [id |-> d.id, title |-> d.title, description |-> d.description,
     owner_id |-> d.owner_id, due_date |-> d.due_date, tasks |-> hp[d.tasks]]

TaskJson(d, hp) ==
    [id |-> d.id, title |-> d.title, status |-> d.status,
     project_id |-> d.project_id, assigned_to |-> hp[d.assigned_to]]

\* json.dump(self.data): the whole document, every key of it.
Dump(data, hp) ==
    Document([k \in DOMAIN data |->
        CASE k = "users" -> [i \in DOMAIN data[k] |-> UserJson(data[k][i], hp)]
          [] k = "projects" -> [i \in DOMAIN data[k] |-> ProjectJson(data[k][i], hp)]
          [] k = "tasks" -> [i \in DOMAIN data[k] |-> TaskJson(data[k][i], hp)]])

\* The number of records the JSON object doc holds under key k.
Count(doc, k) == IF k \in DOMAIN doc THEN Len(doc[k]) ELSE 0

\* json.loads of an object: a dict with the keys of the text, every list of
\* the text a new list object, at the addresses as (one per record: the
\* users' first, then the projects', then the tasks').
Loads(doc, as) ==
    LET nu == Count(doc, "users")
        np == Count(doc, "projects")
    IN [k \in DOMAIN doc |->
        CASE k = "users" ->
               [i \in DOMAIN doc[k] |->
                  [id |-> doc[k][i].id, name |-> doc[k][i].name,
                   email |-> doc[k][i].email, projects |-> as[i]]]
          [] k = "projects" ->
               [i \in DOMAIN doc[k] |->
                  [id |-> doc[k][i].id, title |-> doc[k][i].title,
                   description |-> doc[k][i].description,
                   owner_id |-> doc[k][i].owner_id,
                   due_date |-> doc[k][i].due_date, tasks |-> as[nu + i]]]
          [] k = "tasks" ->
               [i \in DOMAIN doc[k] |->
                  [id |-> doc[k][i].id, title |-> doc[k][i].title,
                   status |-> doc[k][i].status,
                   project_id |-> doc[k][i].project_id,
                   assigned_to |-> as[nu + np + i]]]]

\* The heap after json.loads has created those lists.
LoadsHeap(doc, as, hp) ==
    LET nu == Count(doc, "users")
        np == Count(doc, "projects")
        nt == Count(doc, "tasks")
    IN [a \in Addr |->
          IF \E i \in 1 .. nu : as[i] = a
          THEN doc.users[CHOOSE i \in 1 .. nu : as[i] = a].projects
          ELSE IF \E i \in 1 .. np : as[nu + i] = a
          THEN doc.projects[CHOOSE i \in 1 .. np : as[nu + i] = a].tasks
          ELSE IF \E i \in 1 .. nt : as[nu + np + i] = a
          THEN doc.tasks[CHOOSE i \in 1 .. nt : as[nu + np + i] = a].assigned_to
          ELSE hp[a]]

\* ------------------------------------- the text json.dump(indent=2) writes

RECURSIVE Sum(_)
Sum(s) == IF s = <<>> THEN 0 ELSE Head(s) + Sum(Tail(s))

\* The length of a string of the text: its quotes, and every character as
\* itself or as its two-character escape.
StringLen(s) ==
    2 + Sum([i \in DOMAIN s |-> IF s[i] \in {"\t", "\n", "\"", "\\"} THEN 2 ELSE 1])

\* The length of a non-negative integer of the text.
RECURSIVE Digits(_)
Digits(n) == IF n < 10 THEN 1 ELSE 1 + Digits(n \div 10)

\* The length of a list written at indentation n whose elements have the
\* lengths vl: "[]", or every element on a line of its own at n + 2.
ListLen(n, vl) ==
    IF vl = <<>> THEN 2
    ELSE Sum(vl) + Len(vl) * (n + 3) + (Len(vl) - 1) + n + 3

\* The length of a dict written at indentation n whose items have the key
\* and value lengths kv: every item "key": value on a line of its own.
DictLen(n, kv) ==
    IF kv = <<>> THEN 2
    ELSE Sum([i \in DOMAIN kv |-> kv[i][1] + kv[i][2]])
             + Len(kv) * (n + 7) + (Len(kv) - 1) + n + 3

\* The characters of the statuses and of the dates the model draws from.
WordLen(w) ==
    CASE w = "pending" -> 7
      [] w = "in_progress" -> 11
      [] w = "completed" -> 9
      [] w = "bogus" -> 5
      [] w = "2024-12-31" -> 10
      [] w = "2025-01-15" -> 10
      [] w = "Dec 31 2024" -> 11
      [] w = "2024-12-31T00:00:00" -> 19
      [] w = "2025-01-15T00:00:00" -> 19

\* The length of one record of the collection k, written at indentation 4,
\* its list of ids at indentation 6.
RecordLen(k, r) ==
    LET IntListLen(n, ids) == ListLen(n, [i \in DOMAIN ids |-> Digits(ids[i])])
    IN
    CASE k = "users" ->
           DictLen(4, << <<2, Digits(r.id)>>, <<4, StringLen(r.name)>>,
                         <<5, StringLen(r.email)>>,
                         <<8, IntListLen(6, r.projects)>> >>)
      [] k = "projects" ->
           DictLen(4, << <<2, Digits(r.id)>>, <<5, StringLen(r.title)>>,
                         <<11, StringLen(r.description)>>,
                         <<8, Digits(r.owner_id)>>,
                         <<8, IF r.due_date = None THEN 4
                              ELSE 2 + WordLen(r.due_date[1])>>,
                         <<5, IntListLen(6, r.tasks)>> >>)
      [] k = "tasks" ->
           DictLen(4, << <<2, Digits(r.id)>>, <<5, StringLen(r.title)>>,
                         <<6, 2 + WordLen(r.status)>>,
                         <<10, Digits(r.project_id)>>,
                         <<11, IntListLen(6, r.assigned_to)>> >>)

\* The length of the text of the JSON object doc.
DocLen(doc) ==
    LET ks == SelectSeq(<<"users", "projects", "tasks">>, LAMBDA k : k \in DOMAIN doc)
    IN DictLen(0, [j \in DOMAIN ks |->
                     <<IF ks[j] = "projects" THEN 8 ELSE 5,
                       ListLen(2, [i \in DOMAIN doc[ks[j]] |->
                                     RecordLen(ks[j], doc[ks[j]][i])])>>])

\* What a file that held fc can hold after a process that had opened it for
\* writing earlier writes the text of the object doc from offset 0. A file
\* that is empty, or holds an object whose text is not longer, holds doc; a
\* longer text keeps its tail after the text of doc, which is not JSON. The
\* model does not keep the length of a text that is no object.
Overlays(fc, doc) ==
    CASE fc.kind \in {"missing", "blank"} -> {Document(doc)}
      [] fc.kind = "object" ->
           IF DocLen(fc.doc) > DocLen(doc) THEN {Garbage} ELSE {Document(doc)}
      [] OTHER -> {Document(doc), Garbage}

\* -------------------------------------------------------------- the state

VARIABLES
    file,       \* file[path]: the content of the file at path
    store,      \* store[h]: the DataStore instance the caller's variable h holds
    counter,    \* counter[p]: process p's User, Project and Task _id_counter
    obj,        \* obj[p]: the entity object process p's caller holds
    heap,       \* heap[a]: the content of the list object at address a
    last,       \* the last call: its name, arguments and outcome
    steps,      \* the number of calls made so far
    made,       \* history: kind and id of the entities constructed so far
    retired,    \* history: the task ids delete_task has removed so far
    writing     \* writing[p]: None, or the file process p has opened in save()
                \* and the document it is about to write to it

vars == <<file, store, counter, obj, heap, last, steps, made, retired, writing>>

\* One more call, while the run may make one.
Within(n, call) ==
    steps < n /\ call /\ steps' = steps + 1 /\ UNCHANGED <<made, retired, writing>>

Step(call) == Within(MaxSteps, call)

\* The variable h holds no store.
NoStore == [live |-> FALSE, proc |-> 1, path |-> "store.json", data |-> EmptyData]

\* The class attributes as the interpreter starts: _id_counter = 1.
InitialCounters == [users |-> 1, projects |-> 1, tasks |-> 1]

\* A call and its outcome: arg is the id it is about, val the value passed
\* to a setter or the status passed to Task(), result what a query returns.
Call(op, p, h, arg) ==
    [op |-> op, proc |-> p, h |-> h, arg |-> arg, val |-> <<>>, raised |-> FALSE,
     found |-> FALSE, saved |-> FALSE, result |-> <<>>]

\* The list objects a document, an entity, a state references.
DataRefs(data) ==
    {data.users[i].projects : i \in DOMAIN data.users}
        \cup {data.projects[i].tasks : i \in DOMAIN data.projects}
        \cup {data.tasks[i].assigned_to : i \in DOMAIN data.tasks}

ObjRefs(e) ==
    CASE e.kind = "user" -> {e.projects}
      [] e.kind = "project" -> {e.tasks}
      [] e.kind = "task" -> {e.assigned_to}
      [] OTHER -> {}

Refs(st, ob) ==
    UNION {DataRefs(st[h].data) : h \in Handles} \cup UNION {ObjRefs(ob[p]) : p \in Procs}

\* Garbage collection: a list nothing references is gone.
Collect(hp, st, ob) == [a \in Addr |-> IF a \in Refs(st, ob) THEN hp[a] ELSE <<>>]

\* The address of the next list object created.
NewList == Fresh(Refs(store, obj), 1)[1]

\* --------------------------------------------------------------- DataStore

\* The outcomes of writing the file: the write succeeds; open() fails and the
\* file is as it was; the write fails after open() has truncated the file.
WriteOutcomes == {"ok", "denied", "truncated"}

\* save(): the file after json.dump of the whole document, or after the
\* IOError that save() catches and reports.
save(fc, data, hp, io) ==
    CASE io = "ok" -> Dump(data, hp)
      [] io = "denied" -> fc
      [] io = "truncated" -> Blank

\* A document that lacks a key is replaced by the empty document.
EnsureKeys_or_reinitialize(d) == IF DOMAIN d = Keys THEN d ELSE EmptyData

\* "Ensure all required keys exist"
EnsureKeys(d) == [k \in Keys |-> IF k \in DOMAIN d THEN d[k] ELSE <<>>]

\* Counters set from the number of records instead of the largest id.
update_id_counters_by_count(c, data) ==
    [users |-> IF data.users # <<>> THEN Len(data.users) + 1 ELSE c.users,
     projects |-> IF data.projects # <<>> THEN Len(data.projects) + 1 ELSE c.projects,
     tasks |-> IF data.tasks # <<>> THEN Len(data.tasks) + 1 ELSE c.tasks]

\* _update_id_counters(): each non-empty collection sets its class counter.
update_id_counters(c, data) ==
    [users |-> IF data.users # <<>> THEN SetMax(Ids(data.users)) + 1 ELSE c.users,
     projects |-> IF data.projects # <<>> THEN SetMax(Ids(data.projects)) + 1
                  ELSE c.projects,
     tasks |-> IF data.tasks # <<>> THEN SetMax(Ids(data.tasks)) + 1 ELSE c.tasks]

\* load() on a new instance (self.data the three empty collections), given
\* the file content fc, the class counters c and the addresses as for the
\* lists json.loads creates: whether it raised, and self.data, the file, the
\* counters and the heap after it.
load(fc, c, hp, as, io) ==
    CASE fc.kind = "missing" ->
           \* else: self.save()
           [raised |-> FALSE, data |-> EmptyData, file |-> save(fc, EmptyData, hp, io),
            counter |-> c, heap |-> hp, saved |-> io = "ok"]
      [] fc.kind = "blank" ->
           \* content is empty: the three empty collections, and no save()
           [raised |-> FALSE, data |-> EnsureKeys(EmptyData), file |-> fc,
            counter |-> update_id_counters(c, EmptyData), heap |-> hp, saved |-> FALSE]
      [] fc.kind = "garbage" ->
           \* json.JSONDecodeError is caught: empty data, self.save()
           [raised |-> FALSE, data |-> EmptyData, file |-> save(fc, EmptyData, hp, io),
            counter |-> c, heap |-> hp, saved |-> io = "ok"]
      [] fc.kind = "nonobject" ->
           \* "'users' not in self.data" or "self.data['users'] = []" raises
           \* TypeError, which "except (json.JSONDecodeError, IOError)" lets through
           [raised |-> TRUE, data |-> EmptyData, file |-> fc,
            counter |-> c, heap |-> hp, saved |-> FALSE]
      [] fc.kind = "object" ->
           LET d == EnsureKeys(Loads(fc.doc, as))
           IN [raised |-> FALSE, data |-> d, file |-> fc,
               counter |-> update_id_counters(c, d),
               heap |-> LoadsHeap(fc.doc, as, hp), saved |-> FALSE]

\* store_h = DataStore(path) in process p. When the constructor raises, the
\* variable keeps what it held.
DataStore(h, p, path, io) ==
    /\ ~store[h].live \/ store[h].proc = p
    /\ LET fc == file[path]
           n == IF fc.kind = "object"
                THEN Count(fc.doc, "users") + Count(fc.doc, "projects")
                         + Count(fc.doc, "tasks")
                ELSE 0
           r == load(fc, counter[p], heap, Fresh(Refs(store, obj), n), io)
       IN /\ file' = [file EXCEPT ![path] = r.file]
          /\ store' = IF r.raised THEN store
                      ELSE [store EXCEPT ![h] = [live |-> TRUE, proc |-> p,
                                                 path |-> path, data |-> r.data]]
          /\ counter' = [counter EXCEPT ![p] = r.counter]
          /\ obj' = obj
          /\ heap' = Collect(r.heap, store', obj')
          /\ last' = [Call("DataStore", p, h, 0) EXCEPT !.raised = r.raised,
                                                        !.saved = r.saved]

\* ------------------------------------------- the caller's entity objects

\* obj[p] = User(name, email, user_id)
NewUser(p, name, email, user_id) ==
    /\ user_id = None => counter[p].users <= MaxId
    /\ LET a == NewList
       IN /\ obj' = [obj EXCEPT ![p] = User(counter[p].users, name, email, user_id, a)]
          /\ counter' = [counter EXCEPT ![p].users = AdvancedCounter(@, user_id)]
          /\ heap' = Collect([heap EXCEPT ![a] = <<>>], store, obj')
          /\ last' = Call("User", p, 0, obj'[p].id)
          /\ UNCHANGED <<file, store>>

\* obj[p] = Project(title, description, owner_id, due_date, project_id)
NewProject(p, title, description, owner_id, due_date, project_id) ==
    /\ project_id = None => counter[p].projects <= MaxId
    /\ counter' = [counter EXCEPT ![p].projects = AdvancedCounter(@, project_id)]
    /\ IF due_date # None /\ due_date[1] # "" /\ ParseRaises(due_date[1])
       THEN /\ last' = [Call("Project", p, 0, 0) EXCEPT !.raised = TRUE]
            /\ UNCHANGED <<obj, heap>>
       ELSE LET a == NewList
            IN /\ obj' = [obj EXCEPT ![p] = Project(counter[p].projects, title, description,
                                                     owner_id, due_date, project_id, a)]
               /\ heap' = Collect([heap EXCEPT ![a] = <<>>], store, obj')
               /\ last' = Call("Project", p, 0, obj'[p].id)
    /\ UNCHANGED <<file, store>>

\* obj[p] = Task(title, project_id, status, task_id=task_id)
NewTask(p, title, project_id, status, task_id) ==
    /\ task_id = None => counter[p].tasks <= MaxId
    /\ LET a == NewList
       IN /\ obj' = [obj EXCEPT ![p] = Task(counter[p].tasks, title, project_id, status,
                                             None, task_id, a, heap)]
          /\ counter' = [counter EXCEPT ![p].tasks = AdvancedCounter(@, task_id)]
          /\ heap' = Collect([heap EXCEPT ![a] = <<>>], store, obj')
          /\ last' = [Call("Task", p, 0, obj'[p].id) EXCEPT !.val = status]
          /\ UNCHANGED <<file, store>>

\* The validated setters of name and title: ValueError on an empty or blank
\* value, the stripped value otherwise.
Rejected(value) == value = <<>> \/ Strip(value) = <<>>

\* obj[p].name = value
set_name(p, value) ==
    /\ obj[p].kind = "user"
    /\ obj' = IF Rejected(value) THEN obj ELSE [obj EXCEPT ![p].name = Strip(value)]
    /\ last' = [Call("name", p, 0, obj[p].id) EXCEPT !.val = value,
                                                   !.raised = Rejected(value)]
    /\ UNCHANGED <<file, store, counter, heap>>

\* obj[p].title = value, on a project or a task
set_title(p, value) ==
    /\ obj[p].kind \in {"project", "task"}
    /\ obj' = IF Rejected(value) THEN obj ELSE [obj EXCEPT ![p].title = Strip(value)]
    /\ last' = [Call("title", p, 0, obj[p].id) EXCEPT !.val = value,
                                                    !.raised = Rejected(value)]
    /\ UNCHANGED <<file, store, counter, heap>>

\* An email setter that checks only that the value is not empty.
set_email_unchecked(p, value) ==
    /\ obj[p].kind = "user"
    /\ LET bad == value = <<>>
       IN /\ obj' = IF bad THEN obj ELSE [obj EXCEPT ![p].email = Strip(value)]
          /\ last' = [Call("email", p, 0, obj[p].id) EXCEPT !.val = value, !.raised = bad]
    /\ UNCHANGED <<file, store, counter, heap>>

\* obj[p].email = value: ValueError on an empty value or one without "@",
\* the stripped value otherwise.
set_email(p, value) ==
    /\ obj[p].kind = "user"
    /\ LET bad == value = <<>> \/ "@" \notin Range(value)
       IN /\ obj' = IF bad THEN obj ELSE [obj EXCEPT ![p].email = Strip(value)]
          /\ last' = [Call("email", p, 0, obj[p].id) EXCEPT !.val = value, !.raised = bad]
    /\ UNCHANGED <<file, store, counter, heap>>

\* obj[p].description = value: the stripped value, "" for an empty one.
set_description(p, value) ==
    /\ obj[p].kind = "project"
    /\ obj' = [obj EXCEPT ![p].description = IF value # <<>> THEN Strip(value) ELSE <<>>]
    /\ last' = [Call("description", p, 0, obj[p].id) EXCEPT !.val = value]
    /\ UNCHANGED <<file, store, counter, heap>>

\* obj[p].due_date = value: _parse_date(value), or the error it lets through.
set_due_date(p, value) ==
    /\ obj[p].kind = "project"
    /\ obj' = IF ParseRaises(value) THEN obj ELSE [obj EXCEPT ![p].due_date = ParseDate(value)]
    /\ last' = [Call("due_date", p, 0, obj[p].id) EXCEPT !.val = value,
                                                       !.raised = ParseRaises(value)]
    /\ UNCHANGED <<file, store, counter, heap>>

\* obj[p].status = value: ValueError on a value outside VALID_STATUSES.
set_status(p, value) ==
    /\ obj[p].kind = "task"
    /\ obj' = IF value \in VALID_STATUSES THEN [obj EXCEPT ![p].status = value] ELSE obj
    /\ last' = [Call("status", p, 0, obj[p].id) EXCEPT !.val = value,
                                                     !.raised = value \notin VALID_STATUSES]
    /\ UNCHANGED <<file, store, counter, heap>>

\* An append without the membership test.
AppendNew_always(hp, a, x) == [hp EXCEPT ![a] = Append(@, x)]

\* "if x not in lst: lst.append(x)" on the list object at a
AppendNew(hp, a, x) ==
    IF x \in Range(hp[a]) THEN hp ELSE [hp EXCEPT ![a] = Append(@, x)]

\* obj[p].add_project(project_id), User.add_project
User_add_project(p, project_id) ==
    /\ obj[p].kind = "user"
    /\ heap' = AppendNew(heap, obj[p].projects, project_id)
    /\ last' = Call("User.add_project", p, 0, project_id)
    /\ UNCHANGED <<file, store, counter, obj>>

\* obj[p].add_task(task_id), Project.add_task
Project_add_task(p, task_id) ==
    /\ obj[p].kind = "project"
    /\ heap' = AppendNew(heap, obj[p].tasks, task_id)
    /\ last' = Call("Project.add_task", p, 0, task_id)
    /\ UNCHANGED <<file, store, counter, obj>>

\* obj[p].assign_user(user_id)
assign_user(p, user_id) ==
    /\ obj[p].kind = "task"
    /\ heap' = AppendNew(heap, obj[p].assigned_to, user_id)
    /\ last' = Call("assign_user", p, 0, user_id)
    /\ UNCHANGED <<file, store, counter, obj>>

\* "if x in lst: lst.remove(x)" on the list object at a: list.remove takes
\* out the first occurrence.
\* A removal that puts the last id in the place of the one it takes out.
RemoveValue_by_swap(hp, a, x) ==
    IF x \in Range(hp[a])
    THEN LET i == SetMin({j \in DOMAIN hp[a] : hp[a][j] = x})
             n == Len(hp[a])
         IN [hp EXCEPT ![a] = SubSeq([hp[a] EXCEPT ![i] = hp[a][n]], 1, n - 1)]
    ELSE hp

RemoveValue(hp, a, x) ==
    IF x \in Range(hp[a])
    THEN [hp EXCEPT ![a] = RemoveAt(@, SetMin({i \in DOMAIN @ : @[i] = x}))]
    ELSE hp

\* obj[p].remove_project(project_id), User.remove_project
User_remove_project(p, project_id) ==
    /\ obj[p].kind = "user"
    /\ heap' = RemoveValue(heap, obj[p].projects, project_id)
    /\ last' = Call("User.remove_project", p, 0, project_id)
    /\ UNCHANGED <<file, store, counter, obj>>

\* obj[p].remove_task(task_id), Project.remove_task
Project_remove_task(p, task_id) ==
    /\ obj[p].kind = "project"
    /\ heap' = RemoveValue(heap, obj[p].tasks, task_id)
    /\ last' = Call("Project.remove_task", p, 0, task_id)
    /\ UNCHANGED <<file, store, counter, obj>>

\* obj[p].unassign_user(user_id)
unassign_user(p, user_id) ==
    /\ obj[p].kind = "task"
    /\ heap' = RemoveValue(heap, obj[p].assigned_to, user_id)
    /\ last' = Call("unassign_user", p, 0, user_id)
    /\ UNCHANGED <<file, store, counter, obj>>

\* obj[p].mark_in_progress()
mark_in_progress(p) ==
    /\ obj[p].kind = "task"
    /\ obj' = [obj EXCEPT ![p].status = "in_progress"]
    /\ last' = Call("mark_in_progress", p, 0, obj[p].id)
    /\ UNCHANGED <<file, store, counter, heap>>

\* obj[p].mark_pending()
mark_pending(p) ==
    /\ obj[p].kind = "task"
    /\ obj' = [obj EXCEPT ![p].status = "pending"]
    /\ last' = Call("mark_pending", p, 0, obj[p].id)
    /\ UNCHANGED <<file, store, counter, heap>>

\* obj[p] = type(obj[p]).from_dict(obj[p].to_dict())
from_dict_of_to_dict(p) ==
    /\ obj[p].kind \in {"user", "project", "task"}
    /\ LET e == obj[p]
           k == CASE e.kind = "user" -> "users"
                  [] e.kind = "project" -> "projects"
                  [] e.kind = "task" -> "tasks"
           a == NewList
       IN /\ obj' = [obj EXCEPT ![p] =
                       CASE e.kind = "user" -> UserFromDict(counter[p].users, UserToDict(e), a)
                         [] e.kind = "project" ->
                              ProjectFromDict(counter[p].projects, ProjectToDict(e), a)
                         [] e.kind = "task" ->
                              TaskFromDict(counter[p].tasks, TaskToDict(e), a, heap)]
          /\ counter' = [counter EXCEPT ![p][k] = AdvancedCounter(@, Some(e.id))]
          /\ heap' = Collect(heap, store, obj')
          /\ last' = Call("from_dict", p, 0, e.id)
          /\ UNCHANGED <<file, store>>

\* obj[p] = Task.from_dict({'id': task_id, 'title': title, 'status': status,
\*                          'project_id': 1, 'assigned_to': assigned_to})
Task_from_dict(p, task_id, title, status, assigned_to) ==
    /\ LET as == Fresh(Refs(store, obj), 2)
           hp == [heap EXCEPT ![as[1]] = assigned_to]
           d == [id |-> task_id, title |-> title, status |-> status,
                 project_id |-> 1, assigned_to |-> as[1]]
       IN /\ obj' = [obj EXCEPT ![p] = TaskFromDict(counter[p].tasks, d, as[2], hp)]
          /\ counter' = [counter EXCEPT ![p].tasks = AdvancedCounter(@, Some(task_id))]
          /\ heap' = Collect(hp, store, obj')
          /\ last' = [Call("Task.from_dict", p, 0, task_id) EXCEPT !.val = status]
          /\ UNCHANGED <<file, store>>

\* obj[p].mark_completed()
mark_completed(p) ==
    /\ obj[p].kind = "task"
    /\ obj' = [obj EXCEPT ![p].status = "completed"]
    /\ last' = Call("mark_completed", p, 0, obj[p].id)
    /\ UNCHANGED <<file, store, counter, heap>>

\* ------------------------------------------------ DataStore's operations

\* add_user with a uniqueness check: a user whose id is stored is not added.
add_user_unique(h, io) ==
    /\ store[h].live
    /\ obj[store[h].proc].kind = "user"
    /\ Len(store[h].data.users) < MaxLen
    /\ store' = IF obj[store[h].proc].id \in Ids(store[h].data.users) THEN store
                ELSE [store EXCEPT ![h].data.users = Append(@, UserToDict(obj[store[h].proc]))]
    /\ file' = [file EXCEPT ![store[h].path] = save(@, store'[h].data, heap, io)]
    /\ last' = [Call("add_user", store[h].proc, h, obj[store[h].proc].id)
                   EXCEPT !.saved = (io = "ok")]
    /\ UNCHANGED <<counter, obj, heap>>

\* store_h.add_user(obj): append obj.to_dict(), save()
add_user(h, io) ==
    /\ store[h].live
    /\ obj[store[h].proc].kind = "user"
    /\ Len(store[h].data.users) < MaxLen
    /\ store' = [store EXCEPT ![h].data.users = Append(@, UserToDict(obj[store[h].proc]))]
    /\ file' = [file EXCEPT ![store[h].path] = save(@, store'[h].data, heap, io)]
    /\ last' = [Call("add_user", store[h].proc, h, obj[store[h].proc].id)
                   EXCEPT !.saved = (io = "ok")]
    /\ UNCHANGED <<counter, obj, heap>>

\* store_h.add_project(obj): append obj.to_dict(), save()
add_project(h, io) ==
    /\ store[h].live
    /\ obj[store[h].proc].kind = "project"
    /\ Len(store[h].data.projects) < MaxLen
    /\ store' = [store EXCEPT ![h].data.projects = Append(@, ProjectToDict(obj[store[h].proc]))]
    /\ file' = [file EXCEPT ![store[h].path] = save(@, store'[h].data, heap, io)]
    /\ last' = [Call("add_project", store[h].proc, h, obj[store[h].proc].id)
                   EXCEPT !.saved = (io = "ok")]
    /\ UNCHANGED <<counter, obj, heap>>

\* add_task that takes the record back when the write fails.
add_task_rolled_back(h, io) ==
    /\ store[h].live
    /\ obj[store[h].proc].kind = "task"
    /\ Len(store[h].data.tasks) < MaxLen
    /\ store' = IF io = "ok"
                THEN [store EXCEPT ![h].data.tasks = Append(@, TaskToDict(obj[store[h].proc]))]
                ELSE store
    /\ file' = [file EXCEPT
                  ![store[h].path] =
                      save(@, [store[h].data EXCEPT
                                 !.tasks = Append(@, TaskToDict(obj[store[h].proc]))], heap, io)]
    /\ last' = [Call("add_task", store[h].proc, h, obj[store[h].proc].id)
                   EXCEPT !.saved = (io = "ok")]
    /\ UNCHANGED <<counter, obj, heap>>

\* store_h.add_task(obj): append obj.to_dict(), save()
add_task(h, io) ==
    /\ store[h].live
    /\ obj[store[h].proc].kind = "task"
    /\ Len(store[h].data.tasks) < MaxLen
    /\ store' = [store EXCEPT ![h].data.tasks = Append(@, TaskToDict(obj[store[h].proc]))]
    /\ file' = [file EXCEPT ![store[h].path] = save(@, store'[h].data, heap, io)]
    /\ last' = [Call("add_task", store[h].proc, h, obj[store[h].proc].id)
                   EXCEPT !.saved = (io = "ok")]
    /\ UNCHANGED <<counter, obj, heap>>

\* update_user that replaces every record with obj's id, not the first only.
update_user_every_match(h, io) ==
    /\ store[h].live
    /\ obj[store[h].proc].kind = "user"
    /\ LET i == FirstIndex(store[h].data.users, obj[store[h].proc].id)
       IN IF i = 0
          THEN /\ last' = Call("update_user", store[h].proc, h, obj[store[h].proc].id)
               /\ UNCHANGED <<file, store, counter, obj, heap>>
          ELSE /\ store' = [store EXCEPT ![h].data.users =
                              [j \in DOMAIN @ |->
                                 IF @[j].id = obj[store[h].proc].id
                                 THEN UserToDict(obj[store[h].proc]) ELSE @[j]]]
               /\ file' = [file EXCEPT
                             ![store[h].path] = save(@, store'[h].data, heap, io)]
               /\ heap' = Collect(heap, store', obj)
               /\ last' = [Call("update_user", store[h].proc, h, obj[store[h].proc].id)
                              EXCEPT !.found = TRUE, !.saved = (io = "ok")]
               /\ UNCHANGED <<counter, obj>>

\* store_h.update_user(obj): the first record with obj's id is replaced by
\* obj.to_dict() and the document saved; nothing happens when there is none.
update_user(h, io) ==
    /\ store[h].live
    /\ obj[store[h].proc].kind = "user"
    /\ LET i == FirstIndex(store[h].data.users, obj[store[h].proc].id)
       IN IF i = 0
          THEN /\ last' = Call("update_user", store[h].proc, h, obj[store[h].proc].id)
               /\ UNCHANGED <<file, store, counter, obj, heap>>
          ELSE /\ store' = [store EXCEPT
                              ![h].data.users[i] = UserToDict(obj[store[h].proc])]
               /\ file' = [file EXCEPT
                             ![store[h].path] = save(@, store'[h].data, heap, io)]
               /\ heap' = Collect(heap, store', obj)
               /\ last' = [Call("update_user", store[h].proc, h, obj[store[h].proc].id)
                              EXCEPT !.found = TRUE, !.saved = (io = "ok")]
               /\ UNCHANGED <<counter, obj>>

\* update_project that inserts the project when no record has its id.
update_project_upsert(h, io) ==
    /\ store[h].live
    /\ obj[store[h].proc].kind = "project"
    /\ LET i == FirstIndex(store[h].data.projects, obj[store[h].proc].id)
       IN /\ store' = IF i = 0
                      THEN [store EXCEPT ![h].data.projects =
                              Append(@, ProjectToDict(obj[store[h].proc]))]
                      ELSE [store EXCEPT ![h].data.projects[i] =
                              ProjectToDict(obj[store[h].proc])]
          /\ file' = [file EXCEPT ![store[h].path] = save(@, store'[h].data, heap, io)]
          /\ heap' = Collect(heap, store', obj)
          /\ last' = [Call("update_project", store[h].proc, h, obj[store[h].proc].id)
                         EXCEPT !.found = (i # 0), !.saved = (io = "ok")]
          /\ UNCHANGED <<counter, obj>>

\* store_h.update_project(obj): the first record with obj's id is replaced by
\* obj.to_dict() and the document saved; nothing happens when there is none.
update_project(h, io) ==
    /\ store[h].live
    /\ obj[store[h].proc].kind = "project"
    /\ LET i == FirstIndex(store[h].data.projects, obj[store[h].proc].id)
       IN IF i = 0
          THEN /\ last' = Call("update_project", store[h].proc, h, obj[store[h].proc].id)
               /\ UNCHANGED <<file, store, counter, obj, heap>>
          ELSE /\ store' = [store EXCEPT
                              ![h].data.projects[i] = ProjectToDict(obj[store[h].proc])]
               /\ file' = [file EXCEPT
                             ![store[h].path] = save(@, store'[h].data, heap, io)]
               /\ heap' = Collect(heap, store', obj)
               /\ last' = [Call("update_project", store[h].proc, h, obj[store[h].proc].id)
                              EXCEPT !.found = TRUE, !.saved = (io = "ok")]
               /\ UNCHANGED <<counter, obj>>

\* update_task that replaces the record and forgets to save.
update_task_unsaved(h, io) ==
    /\ store[h].live
    /\ obj[store[h].proc].kind = "task"
    /\ LET i == FirstIndex(store[h].data.tasks, obj[store[h].proc].id)
       IN IF i = 0
          THEN /\ last' = Call("update_task", store[h].proc, h, obj[store[h].proc].id)
               /\ UNCHANGED <<file, store, counter, obj, heap>>
          ELSE /\ store' = [store EXCEPT
                              ![h].data.tasks[i] = TaskToDict(obj[store[h].proc])]
               /\ heap' = Collect(heap, store', obj)
               /\ last' = [Call("update_task", store[h].proc, h, obj[store[h].proc].id)
                              EXCEPT !.found = TRUE]
               /\ UNCHANGED <<file, counter, obj>>

\* store_h.update_task(obj): the first record with obj's id is replaced by
\* obj.to_dict() and the document saved; nothing happens when there is none.
update_task(h, io) ==
    /\ store[h].live
    /\ obj[store[h].proc].kind = "task"
    /\ LET i == FirstIndex(store[h].data.tasks, obj[store[h].proc].id)
       IN IF i = 0
          THEN /\ last' = Call("update_task", store[h].proc, h, obj[store[h].proc].id)
               /\ UNCHANGED <<file, store, counter, obj, heap>>
          ELSE /\ store' = [store EXCEPT
                              ![h].data.tasks[i] = TaskToDict(obj[store[h].proc])]
               /\ file' = [file EXCEPT
                             ![store[h].path] = save(@, store'[h].data, heap, io)]
               /\ heap' = Collect(heap, store', obj)
               /\ last' = [Call("update_task", store[h].proc, h, obj[store[h].proc].id)
                              EXCEPT !.found = TRUE, !.saved = (io = "ok")]
               /\ UNCHANGED <<counter, obj>>

\* delete_task that removes every record with the id, not the first only.
delete_task_every_match(h, task_id, io) ==
    /\ store[h].live
    /\ LET i == FirstIndex(store[h].data.tasks, task_id)
           Other(t) == t.id # task_id
       IN IF i = 0
          THEN /\ last' = Call("delete_task", store[h].proc, h, task_id)
               /\ UNCHANGED <<file, store, counter, obj, heap>>
          ELSE /\ store' = [store EXCEPT ![h].data.tasks = SelectSeq(@, Other)]
               /\ file' = [file EXCEPT
                             ![store[h].path] = save(@, store'[h].data, heap, io)]
               /\ heap' = Collect(heap, store', obj)
               /\ last' = [Call("delete_task", store[h].proc, h, task_id)
                              EXCEPT !.found = TRUE, !.saved = (io = "ok")]
               /\ UNCHANGED <<counter, obj>>

\* store_h.delete_task(task_id): the first record with that id is removed and
\* the document saved (True); nothing happens when there is none (False).
delete_task(h, task_id, io) ==
    /\ store[h].live
    /\ LET i == FirstIndex(store[h].data.tasks, task_id)
       IN IF i = 0
          THEN /\ last' = Call("delete_task", store[h].proc, h, task_id)
               /\ UNCHANGED <<file, store, counter, obj, heap>>
          ELSE /\ store' = [store EXCEPT ![h].data.tasks = RemoveAt(@, i)]
               /\ file' = [file EXCEPT
                             ![store[h].path] = save(@, store'[h].data, heap, io)]
               /\ heap' = Collect(heap, store', obj)
               /\ last' = [Call("delete_task", store[h].proc, h, task_id)
                              EXCEPT !.found = TRUE, !.saved = (io = "ok")]
               /\ UNCHANGED <<counter, obj>>

\* obj = store_h.get_user_by_id(id): from_dict of the first record with that
\* id, None when there is none.
get_user_by_id(h, id) ==
    /\ store[h].live
    /\ LET p == store[h].proc
           i == FirstIndex(store[h].data.users, id)
       IN IF i = 0
          THEN /\ obj' = [obj EXCEPT ![p] = NoEntity]
               /\ heap' = Collect(heap, store, obj')
               /\ last' = Call("get_user_by_id", p, h, id)
               /\ UNCHANGED <<file, store, counter>>
          ELSE /\ obj' = [obj EXCEPT ![p] = UserFromDict(counter[p].users,
                                               store[h].data.users[i], NewList)]
               /\ counter' = [counter EXCEPT ![p].users = AdvancedCounter(@, Some(id))]
               /\ heap' = Collect(heap, store, obj')
               /\ last' = [Call("get_user_by_id", p, h, id) EXCEPT !.found = TRUE]
               /\ UNCHANGED <<file, store>>

\* obj = store_h.get_project_by_id(id): from_dict of the first record with that
\* id, None when there is none.
get_project_by_id(h, id) ==
    /\ store[h].live
    /\ LET p == store[h].proc
           i == FirstIndex(store[h].data.projects, id)
       IN IF i = 0
          THEN /\ obj' = [obj EXCEPT ![p] = NoEntity]
               /\ heap' = Collect(heap, store, obj')
               /\ last' = Call("get_project_by_id", p, h, id)
               /\ UNCHANGED <<file, store, counter>>
          ELSE /\ obj' = [obj EXCEPT ![p] = ProjectFromDict(counter[p].projects,
                                               store[h].data.projects[i], NewList)]
               /\ counter' = [counter EXCEPT ![p].projects = AdvancedCounter(@, Some(id))]
               /\ heap' = Collect(heap, store, obj')
               /\ last' = [Call("get_project_by_id", p, h, id) EXCEPT !.found = TRUE]
               /\ UNCHANGED <<file, store>>

\* obj = store_h.get_task_by_id(id): from_dict of the first record with that
\* id, None when there is none.
get_task_by_id(h, id) ==
    /\ store[h].live
    /\ LET p == store[h].proc
           i == FirstIndex(store[h].data.tasks, id)
       IN IF i = 0
          THEN /\ obj' = [obj EXCEPT ![p] = NoEntity]
               /\ heap' = Collect(heap, store, obj')
               /\ last' = Call("get_task_by_id", p, h, id)
               /\ UNCHANGED <<file, store, counter>>
          ELSE /\ obj' = [obj EXCEPT ![p] = TaskFromDict(counter[p].tasks,
                                               store[h].data.tasks[i], NewList, heap)]
               /\ counter' = [counter EXCEPT ![p].tasks = AdvancedCounter(@, Some(id))]
               /\ heap' = Collect(heap, store, obj')
               /\ last' = [Call("get_task_by_id", p, h, id) EXCEPT !.found = TRUE]
               /\ UNCHANGED <<file, store>>

\* The index of the first record of recs whose field f equals value when both
\* are lowercased, 0 when there is none.
FirstNamed(recs, f, value) ==
    IF \E i \in DOMAIN recs : Lower(recs[i][f]) = Lower(value)
    THEN SetMin({i \in DOMAIN recs : Lower(recs[i][f]) = Lower(value)})
    ELSE 0

\* get_user_by_name that compares the names as they are.
get_user_by_name_exact(h, name) ==
    /\ store[h].live
    /\ LET p == store[h].proc
           us == store[h].data.users
           i == IF \E j \in DOMAIN us : us[j].name = name
                THEN SetMin({j \in DOMAIN us : us[j].name = name}) ELSE 0
       IN IF i = 0
          THEN /\ obj' = [obj EXCEPT ![p] = NoEntity]
               /\ heap' = Collect(heap, store, obj')
               /\ last' = [Call("get_user_by_name", p, h, 0) EXCEPT !.val = name]
               /\ UNCHANGED <<file, store, counter>>
          ELSE /\ obj' = [obj EXCEPT ![p] = UserFromDict(counter[p].users, us[i], NewList)]
               /\ counter' = [counter EXCEPT ![p].users = AdvancedCounter(@, Some(us[i].id))]
               /\ heap' = Collect(heap, store, obj')
               /\ last' = [Call("get_user_by_name", p, h, us[i].id)
                              EXCEPT !.val = name, !.found = TRUE]
               /\ UNCHANGED <<file, store>>

\* obj = store_h.get_user_by_name(name): from_dict of the first record whose
\* lowercased name is the lowercased argument, None when there is none.
get_user_by_name(h, name) ==
    /\ store[h].live
    /\ LET p == store[h].proc
           us == store[h].data.users
           i == FirstNamed(us, "name", name)
       IN IF i = 0
          THEN /\ obj' = [obj EXCEPT ![p] = NoEntity]
               /\ heap' = Collect(heap, store, obj')
               /\ last' = [Call("get_user_by_name", p, h, 0) EXCEPT !.val = name]
               /\ UNCHANGED <<file, store, counter>>
          ELSE /\ obj' = [obj EXCEPT ![p] = UserFromDict(counter[p].users, us[i], NewList)]
               /\ counter' = [counter EXCEPT ![p].users = AdvancedCounter(@, Some(us[i].id))]
               /\ heap' = Collect(heap, store, obj')
               /\ last' = [Call("get_user_by_name", p, h, us[i].id)
                              EXCEPT !.val = name, !.found = TRUE]
               /\ UNCHANGED <<file, store>>

\* obj = store_h.get_project_by_title(title): from_dict of the first record
\* whose lowercased title is the lowercased argument, None when there is none.
get_project_by_title(h, title) ==
    /\ store[h].live
    /\ LET p == store[h].proc
           ps == store[h].data.projects
           i == FirstNamed(ps, "title", title)
       IN IF i = 0
          THEN /\ obj' = [obj EXCEPT ![p] = NoEntity]
               /\ heap' = Collect(heap, store, obj')
               /\ last' = [Call("get_project_by_title", p, h, 0) EXCEPT !.val = title]
               /\ UNCHANGED <<file, store, counter>>
          ELSE /\ obj' = [obj EXCEPT ![p] = ProjectFromDict(counter[p].projects, ps[i], NewList)]
               /\ counter' = [counter EXCEPT
                                ![p].projects = AdvancedCounter(@, Some(ps[i].id))]
               /\ heap' = Collect(heap, store, obj')
               /\ last' = [Call("get_project_by_title", p, h, ps[i].id)
                              EXCEPT !.val = title, !.found = TRUE]
               /\ UNCHANGED <<file, store>>

\* The class counter after from_dict has constructed an entity for each of
\* the records recs, in order.
RECURSIVE CounterAfter(_, _)
CounterAfter(c, recs) ==
    IF recs = <<>> THEN c
    ELSE CounterAfter(AdvancedCounter(c, Some(Head(recs).id)), Tail(recs))

\* store_h.get_projects_by_user(user_id): from_dict of every record whose
\* owner_id is user_id, in the order of the records. The caller gets a list
\* of projects; result keeps their values.
get_projects_by_user(h, user_id) ==
    /\ store[h].live
    /\ LET p == store[h].proc
           Owned(d) == d.owner_id = user_id
           ds == SelectSeq(store[h].data.projects, Owned)
       IN /\ counter' = [counter EXCEPT ![p].projects = CounterAfter(@, ds)]
          /\ last' = [Call("get_projects_by_user", p, h, user_id) EXCEPT
                        !.found = (ds # <<>>),
                        !.result = [i \in DOMAIN ds |->
                                      LET e == ProjectFromDict(counter[p].projects, ds[i], NewList)
                                      IN [id |-> e.id, title |-> e.title,
                                          description |-> e.description,
                                          owner_id |-> e.owner_id, due_date |-> e.due_date,
                                          tasks |-> heap[e.tasks]]]]
          /\ UNCHANGED <<file, store, obj, heap>>

\* get_tasks_by_project that stops at the first match.
get_tasks_by_project_first(h, project_id) ==
    /\ store[h].live
    /\ LET p == store[h].proc
           In(d) == d.project_id = project_id
           all == SelectSeq(store[h].data.tasks, In)
           ds == IF all = <<>> THEN <<>> ELSE <<all[1]>>
       IN /\ counter' = [counter EXCEPT ![p].tasks = CounterAfter(@, ds)]
          /\ last' = [Call("get_tasks_by_project", p, h, project_id) EXCEPT
                        !.found = (ds # <<>>),
                        !.result = [i \in DOMAIN ds |->
                                      LET e == TaskFromDict(counter[p].tasks, ds[i], NewList, heap)
                                      IN [id |-> e.id, title |-> e.title, status |-> e.status,
                                          project_id |-> e.project_id,
                                          assigned_to |-> heap[e.assigned_to]]]]
          /\ UNCHANGED <<file, store, obj, heap>>

\* store_h.get_tasks_by_project(project_id): from_dict of every record whose
\* project_id is project_id, in the order of the records. The caller gets a
\* list of tasks; result keeps their values.
get_tasks_by_project(h, project_id) ==
    /\ store[h].live
    /\ LET p == store[h].proc
           In(d) == d.project_id = project_id
           ds == SelectSeq(store[h].data.tasks, In)
       IN /\ counter' = [counter EXCEPT ![p].tasks = CounterAfter(@, ds)]
          /\ last' = [Call("get_tasks_by_project", p, h, project_id) EXCEPT
                        !.found = (ds # <<>>),
                        !.result = [i \in DOMAIN ds |->
                                      LET e == TaskFromDict(counter[p].tasks, ds[i], NewList, heap)
                                      IN [id |-> e.id, title |-> e.title, status |-> e.status,
                                          project_id |-> e.project_id,
                                          assigned_to |-> heap[e.assigned_to]]]]
          /\ UNCHANGED <<file, store, obj, heap>>

\* get_users(): User.from_dict of every stored user, in storage order.
get_users(h) ==
    /\ store[h].live
    /\ LET p == store[h].proc
           ds == store[h].data.users
       IN /\ counter' = [counter EXCEPT ![p].users = CounterAfter(@, ds)]
          /\ last' = [Call("get_users", p, h, 0) EXCEPT
                        !.found = (ds # <<>>),
                        !.result = [i \in DOMAIN ds |->
                                      LET e == UserFromDict(counter[p].users, ds[i], NewList)
                                      IN [id |-> e.id, name |-> e.name, email |-> e.email,
                                          projects |-> heap[e.projects]]]]
          /\ UNCHANGED <<file, store, obj, heap>>

\* get_projects(): Project.from_dict of every stored project.
get_projects(h) ==
    /\ store[h].live
    /\ LET p == store[h].proc
           ds == store[h].data.projects
       IN /\ counter' = [counter EXCEPT ![p].projects = CounterAfter(@, ds)]
          /\ last' = [Call("get_projects", p, h, 0) EXCEPT
                        !.found = (ds # <<>>),
                        !.result = [i \in DOMAIN ds |->
                                      LET e == ProjectFromDict(counter[p].projects, ds[i], NewList)
                                      IN [id |-> e.id, title |-> e.title, description |-> e.description,
                                          owner_id |-> e.owner_id, due_date |-> e.due_date,
                                          tasks |-> heap[e.tasks]]]]
          /\ UNCHANGED <<file, store, obj, heap>>

\* get_tasks that hands the stored tasks over and keeps none.
get_tasks_draining(h) ==
    /\ store[h].live
    /\ LET p == store[h].proc
           ds == store[h].data.tasks
       IN /\ counter' = [counter EXCEPT ![p].tasks = CounterAfter(@, ds)]
          /\ last' = [Call("get_tasks", p, h, 0) EXCEPT
                        !.found = (ds # <<>>),
                        !.result = [i \in DOMAIN ds |->
                                      LET e == TaskFromDict(counter[p].tasks, ds[i], NewList, heap)
                                      IN [id |-> e.id, title |-> e.title, status |-> e.status,
                                          project_id |-> e.project_id,
                                          assigned_to |-> heap[e.assigned_to]]]]
          /\ store' = [store EXCEPT ![h].data.tasks = <<>>]
          /\ UNCHANGED <<file, obj, heap>>

\* get_tasks(): Task.from_dict of every stored task.
get_tasks(h) ==
    /\ store[h].live
    /\ LET p == store[h].proc
           ds == store[h].data.tasks
       IN /\ counter' = [counter EXCEPT ![p].tasks = CounterAfter(@, ds)]
          /\ last' = [Call("get_tasks", p, h, 0) EXCEPT
                        !.found = (ds # <<>>),
                        !.result = [i \in DOMAIN ds |->
                                      LET e == TaskFromDict(counter[p].tasks, ds[i], NewList, heap)
                                      IN [id |-> e.id, title |-> e.title, status |-> e.status,
                                          project_id |-> e.project_id,
                                          assigned_to |-> heap[e.assigned_to]]]]
          /\ UNCHANGED <<file, store, obj, heap>>

\* Process p exits and the program is started again: the class counters are
\* 1 again and no object of the old process is left; the files stay.
NewProcess(p) ==
    /\ store' = [h \in Handles |-> IF store[h].proc = p THEN NoStore ELSE store[h]]
    /\ counter' = [counter EXCEPT ![p] = InitialCounters]
    /\ obj' = [obj EXCEPT ![p] = NoEntity]
    /\ heap' = Collect(heap, store', obj')
    /\ last' = Call("exit", p, 0, 0)
    /\ UNCHANGED file

\* ------------------------------------------------------ the specification

Al == <<"A", "l">>
Bo == <<"B", "o">>
Mail == <<"a", "@", "x">>
Docs == <<"d">>

\* Files written by an earlier run, or by hand: one with every collection
\* holding a record, one with the key "tasks" only and a task whose id is
\* not 1.
SeededFile ==
    Document([users |-> <<[id |-> 1, name |-> Al, email |-> Mail, projects |-> <<1>>]>>,
              projects |-> <<[id |-> 1, title |-> Al, description |-> Docs,
                              owner_id |-> 1, due_date |-> Some("2024-12-31T00:00:00"),
                              tasks |-> <<>>]>>,
              tasks |-> <<[id |-> 1, title |-> Al, status |-> "pending",
                           project_id |-> 1, assigned_to |-> <<>>]>>])

TasksOnlyFile ==
    Document([tasks |-> <<[id |-> 2, title |-> Al, status |-> "in_progress",
                           project_id |-> 1, assigned_to |-> <<1>>]>>])

InitialFiles ==
    {Missing, Blank, Garbage, NonObject, Document(<<>>), TasksOnlyFile, SeededFile}

StartOn(fs) ==
    /\ file \in fs
    /\ store = [h \in Handles |-> NoStore]
    /\ counter = [p \in Procs |-> InitialCounters]
    /\ obj = [p \in Procs |-> NoEntity]
    /\ heap = EmptyHeap
    /\ last = Call("start", 1, 0, 0)
    /\ steps = 0
    /\ made = <<>>
    /\ retired = {}
    /\ writing = [p \in Procs |-> None]

Start(files) == StartOn({f \in [Paths -> files] : f["other.json"] = Missing})

Init == Start(InitialFiles)

\* One process with one store on the file store.json, and writes that
\* succeed.
Next ==
    \/ Step(DataStore(1, 1, "store.json", "ok"))
    \/ Step(NewUser(1, Al, Mail, None))
    \/ Step(NewProject(1, Al, Docs, 1, None, None))
    \/ Step(\E status \in {"pending", "bogus"} : NewTask(1, Al, 1, status, None))
    \/ Step(set_name(1, Bo))
    \/ Step(set_title(1, Bo))
    \/ Step(User_add_project(1, 2))
    \/ Step(add_user(1, "ok"))
    \/ Step(add_project(1, "ok"))
    \/ Step(add_task(1, "ok"))
    \/ Step(update_user(1, "ok"))
    \/ Step(update_project(1, "ok"))
    \/ Step(update_task(1, "ok"))
    \/ Step(\E id \in 1 .. MaxId : delete_task(1, id, "ok"))
    \/ Step(\E id \in 1 .. MaxId : get_user_by_id(1, id))
    \/ Step(\E id \in 1 .. MaxId : get_project_by_id(1, id))
    \/ Step(\E id \in 1 .. MaxId : get_task_by_id(1, id))

Spec == Init /\ [][Next]_vars

\* ---------------------------------------------------- constructors alone

\* A constructor call, recorded in made.
Construct(p, call) ==
    /\ call
    /\ made' = Append(made, [kind |-> obj'[p].kind, id |-> obj'[p].id])
    /\ UNCHANGED <<steps, retired, writing>>

CtorInit == Start({Missing})

\* A fresh process that constructs entities without explicit ids.
CtorNext ==
    \/ \E name \in {Al, Bo} : Construct(1, NewUser(1, name, Mail, None))
    \/ \E due \in {None, Some("2024-12-31"), Some("soon")} :
           Construct(1, NewProject(1, Al, Docs, 1, due, None))
    \/ \E status \in {"pending", "completed", "bogus"} :
           Construct(1, NewTask(1, Al, 1, status, None))

SpecCtor == CtorInit /\ [][CtorNext]_vars

\* ------------------------------------------- several stores on one file

\* A file an earlier run has left with two tasks.
TwoTasksFile ==
    Document([users |-> <<>>, projects |-> <<>>,
              tasks |-> <<[id |-> 1, title |-> Al, status |-> "pending",
                           project_id |-> 1, assigned_to |-> <<>>],
                          [id |-> 2, title |-> Bo, status |-> "pending",
                           project_id |-> 1, assigned_to |-> <<>>]>>])

ReuseInit == Start({Missing, TwoTasksFile})

\* A call that is not the add_task which follows the construction of a task.
Between(call) == last.op # "Task" /\ Within(MaxReuseSteps, call)

\* One process and its two variables for stores on the one file store.json.
\* Every task is constructed without explicit id and added to a store at
\* once; stores are constructed, tasks updated and deleted in between, and
\* the process may exit and start again.
ReuseNext ==
    \/ \E h \in Handles : Between(DataStore(h, 1, "store.json", "ok"))
    \/ Between(NewTask(1, Al, 1, "pending", None))
    \/ \E h \in Handles :
           /\ last.op = "Task"
           /\ Within(MaxReuseSteps, add_task(h, "ok"))
    \/ Between(mark_completed(1))
    \/ \E h \in Handles : Between(update_task(h, "ok"))
    \/ \E h \in Handles, id \in 1 .. MaxId :
           /\ last.op # "Task"
           /\ steps < MaxReuseSteps
           /\ delete_task(h, id, "ok")
           /\ retired' = IF last'.found THEN retired \cup {id} ELSE retired
           /\ steps' = steps + 1
           /\ UNCHANGED <<made, writing>>
    \/ Between(NewProcess(1))

SpecReuse == ReuseInit /\ [][ReuseNext]_vars

\* --------------------------------------------- a store and its reopening

\* A call made before the file is opened a second time.
Writer(call) == ~store[2].live /\ Within(MaxReuseSteps, call)

\* One process works on a store, its variable 1, from a missing file on:
\* it constructs users and tasks, changes them, adds, updates and deletes.
\* Then it constructs a second store on the same file, its variable 2.
PersistNext ==
    \/ Writer(DataStore(1, 1, "store.json", "ok"))
    \/ Writer(NewUser(1, Al, Mail, None))
    \/ Writer(NewTask(1, Al, 1, "pending", None))
    \/ Writer(set_name(1, Bo))
    \/ Writer(mark_completed(1))
    \/ Writer(User_add_project(1, 2))
    \/ Writer(assign_user(1, 1))
    \/ Writer(add_user(1, "ok"))
    \/ Writer(add_task(1, "ok"))
    \/ Writer(update_user(1, "ok"))
    \/ Writer(update_task(1, "ok"))
    \/ Writer(\E id \in 1 .. MaxId : delete_task(1, id, "ok"))
    \/ (store[1].live /\ Writer(DataStore(2, 1, "store.json", "ok")))

SpecPersist == Start({Missing}) /\ [][PersistNext]_vars

\* ----------------------------------------------------- writes that fail

\* One process and one store; every write of the file succeeds, or fails in
\* open(), or fails after open() has emptied the file.
IoNext ==
    \/ Step(\E io \in WriteOutcomes : DataStore(1, 1, "store.json", io))
    \/ Step(NewUser(1, Al, Mail, None))
    \/ Step(NewTask(1, Al, 1, "pending", None))
    \/ Step(set_name(1, Bo))
    \/ Step(mark_completed(1))
    \/ Step(\E id \in 1 .. MaxId : get_task_by_id(1, id))
    \/ Step(\E io \in WriteOutcomes : add_user(1, io))
    \/ Step(\E io \in WriteOutcomes : add_task(1, io))
    \/ Step(\E io \in WriteOutcomes : update_user(1, io))
    \/ Step(\E io \in WriteOutcomes : update_task(1, io))
    \/ Step(\E id \in 1 .. MaxId, io \in WriteOutcomes : delete_task(1, id, io))

SpecIo == Start({Missing, SeededFile}) /\ [][IoNext]_vars

\* ------------------------------------------- two stores on two files

\* The explicit ids passed to the constructors (one that is below the
\* counter once an entity has been constructed, one that is above it until
\* three have been), and none.
ExplicitIds == {None, Some(1), Some(3)}

\* One process with a store on store.json, constructed once, and a store on
\* other.json, files which hold two tasks and one. The process constructs
\* entities with explicit ids and without, and adds each pending task it has
\* constructed without explicit id to a store at once; the tasks it rebuilds
\* with explicit ids are completed ones, which it does not add.
IdsNext ==
    \/ ~store[1].live /\ Step(DataStore(1, 1, "store.json", "ok"))
    \/ Step(DataStore(2, 1, "other.json", "ok"))
    \/ \E e \in ExplicitIds : Step(NewUser(1, Al, Mail, e))
    \/ \E e \in ExplicitIds : Step(NewProject(1, Al, Docs, 1, None, e))
    \/ Step(NewTask(1, Al, 1, "pending", None))
    \/ \E e \in ExplicitIds \ {None} : Step(NewTask(1, Al, 1, "completed", e))
    \/ \E h \in Handles :
           /\ last.op = "Task"
           /\ last.val = "pending"
           /\ Step(add_task(h, "ok"))

IdsInit ==
    StartOn({[f \in Paths |-> IF f = "store.json" THEN TwoTasksFile ELSE SeededFile]})

SpecIds == IdsInit /\ [][IdsNext]_vars

\* ------------------------------------------- two processes on one file

\* Whether the call that has just been made reached save(): the constructor
\* on a file that is missing or not JSON, every add, and an update or a
\* delete that found its record.
SaveReached ==
    CASE last'.op = "DataStore" ->
           ~last'.raised /\ file[store'[last'.h].path].kind \in {"missing", "garbage"}
      [] last'.op \in {"add_user", "add_project", "add_task"} -> TRUE
      [] last'.op \in {"update_user", "update_project", "update_task", "delete_task"} ->
           last'.found
      [] OTHER -> FALSE

\* A call whose save() writes the document as it was before the call.
Opened_before_change(p, call) ==
    /\ steps < MaxRaceSteps
    /\ writing[p] = None
    /\ call
    /\ writing' = [writing EXCEPT
                     ![p] = IF SaveReached
                            THEN Some([path |-> store'[last'.h].path,
                                       doc |-> Dump(store[last'.h].data, heap).doc])
                            ELSE None]
    /\ steps' = steps + 1
    /\ UNCHANGED <<made, retired>>

\* Process p makes a call, which runs up to the open(self.data_file, 'w')
\* of save() if it reaches save(): the file is empty, and what json.dump
\* will write is the document the store holds now.
Opened(p, call) ==
    /\ steps < MaxRaceSteps
    /\ writing[p] = None
    /\ call
    /\ writing' = [writing EXCEPT
                     ![p] = IF SaveReached
                            THEN Some([path |-> store'[last'.h].path,
                                       doc |-> Dump(store'[last'.h].data, heap').doc])
                            ELSE None]
    /\ steps' = steps + 1
    /\ UNCHANGED <<made, retired>>

\* json.dump and the close of the file in process p's save(): the text goes
\* to the file from offset 0, over what the file holds by now.
Written(p) ==
    /\ steps < MaxRaceSteps
    /\ writing[p] # None
    /\ \E fc \in Overlays(file[writing[p][1].path], writing[p][1].doc) :
           file' = [file EXCEPT ![writing[p][1].path] = fc]
    /\ writing' = [writing EXCEPT ![p] = None]
    /\ last' = [Call("save", p, p, 0) EXCEPT !.saved = TRUE]
    /\ steps' = steps + 1
    /\ UNCHANGED <<store, counter, obj, heap, made, retired>>

\* Two processes, each with one store on the file store.json (process p
\* holds it in the variable p), which add users and delete tasks.
RaceNext ==
    \/ \E p \in Procs : Opened(p, DataStore(p, p, "store.json", "truncated"))
    \/ \E p \in Procs : Opened(p, NewUser(p, Al, Mail, None))
    \/ \E p \in Procs : Opened(p, add_user(p, "truncated"))
    \/ \E p \in Procs, id \in {1, 2} : Opened(p, delete_task(p, id, "truncated"))
    \/ \E p \in Procs : Written(p)

\* The file store.json is there, left by an earlier run.
RaceInit == Start({Missing, SeededFile}) /\ file["store.json"] = SeededFile

SpecRace == RaceInit /\ [][RaceNext]_vars

\* ---------------------------------------------------------------- queries

\* A file written by hand: names and titles that differ in letter case only,
\* and the id 1 used by the second user although the first has a larger one.
QueryFile ==
    Document([users |-> <<[id |-> 2, name |-> Al, email |-> Mail, projects |-> <<1>>],
                          [id |-> 1, name |-> <<"A", "L">>, email |-> Mail,
                           projects |-> <<>>]>>,
              projects |-> <<[id |-> 1, title |-> Al, description |-> Docs,
                              owner_id |-> 2, due_date |-> Some("2024-12-31T00:00:00"),
                              tasks |-> <<1, 2>>],
                             [id |-> 2, title |-> <<"a", "L">>, description |-> Docs,
                              owner_id |-> 1, due_date |-> None, tasks |-> <<>>]>>,
              tasks |-> <<[id |-> 1, title |-> Al, status |-> "completed",
                           project_id |-> 1, assigned_to |-> <<2>>],
                          [id |-> 2, title |-> Bo, status |-> "pending",
                           project_id |-> 2, assigned_to |-> <<>>]>>])

\* One process reads a store by id, by name or title and by foreign key, and
\* adds what it has read once more, so that ids and names occur twice.
QueryNext ==
    \/ Step(DataStore(1, 1, "store.json", "ok"))
    \/ Step(\E id \in 1 .. MaxId : get_user_by_id(1, id))
    \/ Step(\E id \in 1 .. MaxId : get_project_by_id(1, id))
    \/ Step(\E id \in 1 .. MaxId : get_task_by_id(1, id))
    \/ Step(\E name \in {<<"a", "l">>, <<"A", "L">>, Bo} : get_user_by_name(1, name))
    \/ Step(\E title \in {<<"a", "l">>, <<"A", "L">>, Bo} : get_project_by_title(1, title))
    \/ Step(\E id \in 1 .. MaxId : get_projects_by_user(1, id))
    \/ Step(\E id \in 1 .. MaxId : get_tasks_by_project(1, id))
    \/ Step(get_users(1))
    \/ Step(get_projects(1))
    \/ Step(get_tasks(1))
    \/ Step(add_user(1, "ok"))
    \/ Step(add_project(1, "ok"))
    \/ Step(add_task(1, "ok"))
    \/ Step(\E id \in 1 .. MaxId : delete_task(1, id, "ok"))

SpecQuery == Start({Missing, QueryFile}) /\ [][QueryNext]_vars

\* ------------------------------------------------------ entities alone

\* Values for the setters: one with whitespace around it, blank ones, the
\* empty one.
Padded == <<" ", "B", "o", "\t">>
Blanks == <<" ", "\n">>
Empty == <<>>
NoAt == <<"b", "o">>
PaddedMail == <<" ", "b", "@", "y", " ">>

\* A call on an entity that no store holds.
Alone(call) == Within(MaxSteps, call)

\* One process constructs entities, from arguments that are valid or not,
\* calls their setters and membership methods, and rebuilds them from their
\* dicts.
EntityNext ==
    \/ \E name \in {Al, Empty}, email \in {Mail, NoAt} : Alone(NewUser(1, name, email, None))
    \/ \E title \in {Al, Blanks}, due \in {None, Some("2024-12-31"), Some("soon")} :
           Alone(NewProject(1, title, Docs, 1, due, None))
    \/ \E status \in VALID_STATUSES \cup {"bogus"} : Alone(NewTask(1, Al, 1, status, None))
    \/ \E status \in {"completed", "bogus"}, assigned_to \in {<<>>, <<2, 1, 3>>} :
           Alone(Task_from_dict(1, 2, Al, status, assigned_to))
    \/ Alone(from_dict_of_to_dict(1))
    \/ \E value \in {Bo, Padded, Blanks, Empty} : Alone(set_name(1, value))
    \/ \E value \in {Bo, Padded, Blanks, Empty} : Alone(set_title(1, value))
    \/ \E value \in {PaddedMail, NoAt, Blanks, Empty} : Alone(set_email(1, value))
    \/ \E value \in {Padded, Empty} : Alone(set_description(1, value))
    \/ \E value \in {"2025-01-15", "soon"} : Alone(set_due_date(1, value))
    \/ \E value \in VALID_STATUSES \cup {"bogus"} : Alone(set_status(1, value))
    \/ Alone(mark_completed(1))
    \/ Alone(mark_in_progress(1))
    \/ Alone(mark_pending(1))
    \/ \E id \in {1, 2} : Alone(User_add_project(1, id))
    \/ \E id \in {1, 2} : Alone(User_remove_project(1, id))
    \/ \E id \in {1, 2} : Alone(Project_add_task(1, id))
    \/ \E id \in {1, 2} : Alone(Project_remove_task(1, id))
    \/ \E id \in {1, 2} : Alone(assign_user(1, id))
    \/ \E id \in {1, 2} : Alone(unassign_user(1, id))

SpecEntity == Start({Missing}) /\ [][EntityNext]_vars

\* A project is constructed and its due date assigned, with strings that
\* parse, that do not, and that make the parser raise.
DueNext ==
    \/ \E due \in {None, Some("2024-12-31"), Some("soon"), Some("99999999999999999999999")} :
           Alone(NewProject(1, Al, Docs, 1, due, None))
    \/ \E value \in {"2025-01-15", "soon", "99999999999999999999999"} :
           Alone(set_due_date(1, value))
    \/ \E value \in {Bo, Empty} : Alone(set_title(1, value))

SpecDue == Start({Missing}) /\ [][DueNext]_vars

\* ------------------------------------------------------ the command layer

\* main() up to the command handler, in a process of its own: whether
\* DataStore() raised, the document it holds after load() with its lists
\* by value, the class counters and the file.
Started(fc) ==
    LET n == IF fc.kind = "object"
             THEN Count(fc.doc, "users") + Count(fc.doc, "projects") + Count(fc.doc, "tasks")
             ELSE 0
        r == load(fc, InitialCounters, EmptyHeap, Fresh({}, n), "ok")
    IN [raised |-> r.raised, doc |-> Dump(r.data, r.heap).doc,
        counter |-> r.counter, file |-> r.file]

\* to_dict() of the entity that from_dict makes of the record r of the
\* collection k, its list by value: what update_<entity> stores for an
\* entity a get_ operation has returned.
Reloaded(k, r) ==
    CASE k = "users" ->
           UserJson(UserToDict(UserFromDict(1, [r EXCEPT !.projects = 1], 2)),
                    [EmptyHeap EXCEPT ![1] = r.projects])
      [] k = "projects" ->
           ProjectJson(ProjectToDict(ProjectFromDict(1, [r EXCEPT !.tasks = 1], 2)),
                       [EmptyHeap EXCEPT ![1] = r.tasks])
      [] k = "tasks" ->
           LET hp == [EmptyHeap EXCEPT ![1] = r.assigned_to]
           IN TaskJson(TaskToDict(TaskFromDict(1, [r EXCEPT !.assigned_to = 1], 2, hp)), hp)

\* The records recs after the entity of record i, which get_ has returned or
\* add_ has stored, has had x added to its membership list f ("if x not in
\* lst: lst.append(x)" on the list object the record shares with it) and
\* update_<entity> has stored e, its to_dict(), in the place of the first
\* record with its id.
Linked(recs, i, f, x, e) ==
    LET lst == IF x \in Range(recs[i][f]) THEN recs[i][f] ELSE Append(recs[i][f], x)
        shared == [recs EXCEPT ![i][f] = lst]
    IN [shared EXCEPT ![FirstIndex(shared, e.id)] = [e EXCEPT ![f] = lst]]

\* The process has run one command and exited: nothing of it is left but
\* the file. val is the name, title or status the command was given, arg the
\* id of the entity it created or changed, found whether it did.
Ran(cmd, arg, val, found, fc) ==
    /\ file' = [file EXCEPT !["store.json"] = fc]
    /\ last' = [Call(cmd, 1, 0, arg) EXCEPT !.val = val, !.found = found]
    /\ UNCHANGED <<store, counter, obj, heap>>

\* add_user_command that takes two names for the same only if they are
\* equal letter by letter.
add_user_command_exact(name, email) ==
    \E s \in {Started(file["store.json"])} :
    LET u == UserJson(UserToDict(User(s.counter.users, name, email, None, 1)), EmptyHeap)
    IN /\ ~s.raised
       /\ Len(s.doc.users) < MaxLen
       /\ IF \E i \in DOMAIN s.doc.users : s.doc.users[i].name = name
          THEN Ran("add-user", 0, name, FALSE, s.file)
          ELSE Ran("add-user", u.id, name, TRUE,
                   Document([s.doc EXCEPT !.users = Append(@, u)]))

\* add_user_command that reports the name that exists and adds the user all
\* the same.
add_user_command_adding_anyway(name, email) ==
    \E s \in {Started(file["store.json"])} :
    LET u == UserJson(UserToDict(User(s.counter.users, name, email, None, 1)), EmptyHeap)
    IN /\ ~s.raised
       /\ Len(s.doc.users) < MaxLen
       /\ Ran("add-user", IF FirstNamed(s.doc.users, "name", name) # 0 THEN 0 ELSE u.id,
              name, FirstNamed(s.doc.users, "name", name) = 0,
              Document([s.doc EXCEPT !.users = Append(@, u)]))

\* main.py add-user --name name --email email
add_user_command(name, email) ==
    \E s \in {Started(file["store.json"])} :
    LET u == UserJson(UserToDict(User(s.counter.users, name, email, None, 1)), EmptyHeap)
    IN /\ ~s.raised
       /\ Len(s.doc.users) < MaxLen
       /\ IF FirstNamed(s.doc.users, "name", name) # 0
          THEN Ran("add-user", 0, name, FALSE, s.file)
          ELSE Ran("add-user", u.id, name, TRUE,
                   Document([s.doc EXCEPT !.users = Append(@, u)]))

\* add_project_command whose user never learns of the project.
add_project_command_unlinked(user, title, description, due_date) ==
    \E s \in {Started(file["store.json"])} :
    LET i == FirstNamed(s.doc.users, "name", user)
        p == ProjectJson(ProjectToDict(
                 Project(s.counter.projects, title,
                         IF description = None THEN <<>> ELSE description[1],
                         s.doc.users[i].id, due_date, None, 1)), EmptyHeap)
    IN /\ ~s.raised
       /\ Len(s.doc.projects) < MaxLen
       /\ IF i = 0 \/ FirstNamed(s.doc.projects, "title", title) # 0
          THEN Ran("add-project", 0, title, FALSE, s.file)
          ELSE Ran("add-project", p.id, title, TRUE,
                   Document([s.doc EXCEPT !.projects = Append(@, p)]))

\* main.py add-project --user user --title title [--description description]
\* [--due-date due_date]; an option that is not given is None.
add_project_command(user, title, description, due_date) ==
    \E s \in {Started(file["store.json"])} :
    LET i == FirstNamed(s.doc.users, "name", user)
        p == ProjectJson(ProjectToDict(
                 Project(s.counter.projects, title,
                         IF description = None THEN <<>> ELSE description[1],
                         s.doc.users[i].id, due_date, None, 1)), EmptyHeap)
    IN /\ ~s.raised
       /\ Len(s.doc.projects) < MaxLen
       /\ IF i = 0 \/ FirstNamed(s.doc.projects, "title", title) # 0
          THEN Ran("add-project", 0, title, FALSE, s.file)
          ELSE Ran("add-project", p.id, title, TRUE,
                   Document([s.doc EXCEPT
                               !.projects = Append(@, p),
                               !.users = Linked(@, i, "projects", p.id,
                                                Reloaded("users", @[i]))]))

\* The assignees that stop at the first name that matches no user.
RECURSIVE Assigned_until_unknown(_, _, _)
Assigned_until_unknown(users, names, ids) ==
    IF names = <<>> \/ FirstNamed(users, "name", Head(names)) = 0 THEN ids
    ELSE LET i == FirstNamed(users, "name", Head(names))
         IN Assigned_until_unknown(users, Tail(names),
                IF users[i].id \in Range(ids) THEN ids ELSE Append(ids, users[i].id))

\* "for username in args.assign": the task's assigned_to after the loop,
\* ids before it.
RECURSIVE Assigned(_, _, _)
Assigned(users, names, ids) ==
    IF names = <<>> THEN ids
    ELSE LET i == FirstNamed(users, "name", Head(names))
         IN Assigned(users, Tail(names),
                IF i = 0 \/ users[i].id \in Range(ids) THEN ids
                ELSE Append(ids, users[i].id))

\* main.py add-task --project project --title title [--assign name ...]
add_task_command(project, title, assign) ==
    \E s \in {Started(file["store.json"])} :
    LET i == FirstNamed(s.doc.projects, "title", project)
        t == TaskJson(TaskToDict(Task(s.counter.tasks, title, s.doc.projects[i].id,
                                      "pending", None, None, 1, EmptyHeap)), EmptyHeap)
        added == Append(s.doc.tasks, t)
        ids == Assigned(s.doc.users, assign[1], t.assigned_to)
    IN /\ ~s.raised
       /\ Len(s.doc.tasks) < MaxLen
       /\ IF i = 0
          THEN Ran("add-task", 0, assign, FALSE, s.file)
          ELSE Ran("add-task", t.id, assign, TRUE,
                   Document([s.doc EXCEPT
                               !.tasks = IF assign = None THEN added
                                         ELSE [[added EXCEPT ![Len(added)].assigned_to = ids]
                                                  EXCEPT ![FirstIndex(added, t.id)] =
                                                             [t EXCEPT !.assigned_to = ids]],
                               !.projects = Linked(@, i, "tasks", t.id,
                                                   Reloaded("projects", @[i]))]))

\* A command that gives a task that has the status already the status
\* pending.
update_task_status_command_toggling(cmd, id, status) ==
    \E s \in {Started(file["store.json"])} :
    LET i == FirstIndex(s.doc.tasks, id)
    IN /\ ~s.raised
       /\ IF i = 0
          THEN Ran(cmd, id, status, FALSE, s.file)
          ELSE Ran(cmd, id, status, TRUE,
                   Document([s.doc EXCEPT
                               !.tasks[i] = [Reloaded("tasks", @) EXCEPT
                                               !.status = IF @ = status THEN "pending"
                                                          ELSE status]]))

\* main.py update-task-status --id id --status status, and main.py
\* complete-task --id id, which is the same with mark_completed().
update_task_status_command(cmd, id, status) ==
    \E s \in {Started(file["store.json"])} :
    LET i == FirstIndex(s.doc.tasks, id)
    IN /\ ~s.raised
       /\ IF i = 0
          THEN Ran(cmd, id, status, FALSE, s.file)
          ELSE Ran(cmd, id, status, TRUE,
                   Document([s.doc EXCEPT
                               !.tasks[i] = [Reloaded("tasks", @) EXCEPT !.status = status]]))

Zed == <<"Z", "e", "d">>

\* One command after another on a file that is missing at first. Names and
\* titles are given in another letter case than stored, empty, or unknown.
CmdNext ==
    \/ \E a \in {<<Al, Mail>>, <<Lower(Al), Mail>>, <<Bo, NoAt>>, <<Empty, Mail>>} :
           Step(add_user_command(a[1], a[2]))
    \/ \E user \in {Lower(Al), Zed},
          a \in {<<Al, None, Some("2024-12-31")>>, <<Lower(Al), None, None>>,
                 <<Blanks, Some(Docs), Some("soon")>>} :
           Step(add_project_command(user, a[1], a[2], a[3]))
    \/ \E project \in {Lower(Al), Zed},
          assign \in {None, Some(<<Zed>>), Some(<<Zed, Bo, Lower(Al), Zed, Al, Bo>>)} :
           Step(add_task_command(project, Al, assign))
    \/ \E id \in {1, 2} : Step(update_task_status_command("complete-task", id, "completed"))
    \/ \E id \in {1, 2}, status \in {"pending", "in_progress"} :
           Step(update_task_status_command("update-task-status", id, status))

SpecCmd == Start({Missing}) /\ [][CmdNext]_vars

\* A task is constructed and its status set and marked, and the commands
\* that change the status of a stored task run on a file that holds two
\* pending tasks.
StatusNext ==
    \/ \E status \in VALID_STATUSES : Step(NewTask(1, Al, 1, status, None))
    \/ \E value \in VALID_STATUSES : Step(set_status(1, value))
    \/ Step(mark_completed(1))
    \/ Step(mark_in_progress(1))
    \/ Step(mark_pending(1))
    \/ \E id \in {1, 2} : Step(update_task_status_command("complete-task", id, "completed"))
    \/ \E id \in {1, 2}, status \in {"pending", "in_progress"} :
           Step(update_task_status_command("update-task-status", id, status))

SpecStatus == IdsInit /\ [][StatusNext]_vars

\* ------------------------------------------------------------  properties

NoDuplicateIds(recs) == \A i, j \in DOMAIN recs : i # j => recs[i].id # recs[j].id

\* C1: after store constructions on one file, constructions without explicit
\* id each followed by its add, updates and delete_task calls, no collection
\* of a store holds two records with the same id.
C1_IdsUniqueInEveryCollection ==
    \A h \in Handles : store[h].live =>
        \A k \in Keys : NoDuplicateIds(store[h].data[k])

\* C2: a task constructed without explicit id never gets an id that
\* delete_task has removed from the store file, in the same process or in a
\* later one.
C2_DeletedIdNeverReused ==
    (last.op = "Task" /\ \E h \in Handles : store[h].live /\ store[h].proc = last.proc)
        => obj[last.proc].id \notin retired

\* What the properties read off a call.
Constructors == {"User", "Project", "Task"}
AddCalls == {"add_user", "add_project", "add_task"}
UpdateCalls == {"update_user", "update_project", "update_task"}
MutatingCalls == AddCalls \cup UpdateCalls \cup {"delete_task"}

\* The collection a call is about.
KeyOf(op) ==
    CASE op \in {"User", "add_user", "update_user", "get_user_by_id"} -> "users"
      [] op \in {"Project", "add_project", "update_project", "get_project_by_id"} -> "projects"
      [] op \in {"Task", "add_task", "update_task", "get_task_by_id", "delete_task"} -> "tasks"

\* The JSON form of an entity's to_dict().
EntityJson(e, hp) ==
    CASE e.kind = "user" -> UserJson(UserToDict(e), hp)
      [] e.kind = "project" -> ProjectJson(ProjectToDict(e), hp)
      [] e.kind = "task" -> TaskJson(TaskToDict(e), hp)

\* The in-memory document of store h, its lists by value, in state (st, hp).
View(st, hp, h) == Dump(st[h].data, hp).doc

\* C3: a store constructed on a file whose collection of a type is not empty
\* sets that type's counter to the largest id of the collection plus one, and
\* a constructor without explicit id gives the entity the counter's value.
C3_LoadSetsCounterToMaxPlusOne ==
    [][ /\ (last'.op = "DataStore" /\ ~last'.raised) =>
              LET fc == file[store'[last'.h].path]
              IN fc.kind = "object" =>
                   \A k \in DOMAIN fc.doc :
                       fc.doc[k] # <<>> =>
                           counter'[last'.proc][k] = SetMax(Ids(fc.doc[k])) + 1
        /\ (last'.op \in Constructors) =>
              obj'[last'.proc].id = counter[last'.proc][KeyOf(last'.op)]
      ]_vars

\* C3's case: the first two calls construct a store on a file whose only
\* task has id 2 and then a task, which gets id 3.
C3_Witness ==
    /\ steps = 2
    /\ last.op = "Task"
    /\ file["store.json"] = TasksOnlyFile
    /\ store[1].live
    /\ obj[1].id = 3

\* The ids of the entities of a kind constructed so far, in order.
IdsMade(kind) ==
    LET OfKind(m) == m.kind = kind
        ms == SelectSeq(made, OfKind)
    IN [i \in DOMAIN ms |-> ms[i].id]

\* C4: from counters at 1, the entities of a type constructed without
\* explicit id get the ids 1, 2, ..., N in construction order, whatever is
\* constructed of the other two types in between: each counter is one more
\* than the number of entities constructed of its own type.
C4_IdsCountFromOnePerType ==
    \A kind \in {"user", "project", "task"} :
        LET ids == IdsMade(kind)
            k == CASE kind = "user" -> "users"
                   [] kind = "project" -> "projects"
                   [] kind = "task" -> "tasks"
        IN /\ \A i \in DOMAIN ids : ids[i] = i
           /\ counter[1][k] = Len(ids) + 1

\* C4's case: two users constructed with a task and a project in between.
C4_Witness ==
    /\ Len(made) = 4
    /\ made[1] = [kind |-> "user", id |-> 1]
    /\ made[2] = [kind |-> "task", id |-> 1]
    /\ made[3] = [kind |-> "project", id |-> 1]
    /\ made[4] = [kind |-> "user", id |-> 2]
    /\ counter[1] = [users |-> 3, projects |-> 2, tasks |-> 2]

\* C5: constructing a store on a missing, blank or unparseable file leaves
\* three empty collections in memory and writes that document to the file.
C5_MissingBlankOrMalformedFileIsRewritten ==
    [][ (last'.op = "DataStore"
            /\ file["store.json"].kind \in {"missing", "blank", "garbage"}) =>
           /\ ~last'.raised
           /\ store'[last'.h].data = EmptyData
           /\ file'[store'[last'.h].path] = Document(EmptyData)
      ]_vars

\* C6: constructing a store never raises, whatever the file holds, and the
\* store constructed has all three collections.
C6_ConstructionNeverRaises ==
    last.op = "DataStore" =>
        /\ ~last.raised
        /\ store[last.h].live
        /\ DOMAIN store[last.h].data = Keys

\* C7 as stated, for a store whose file holds a JSON object: at the return of
\* every add, update and delete_task call the file holds the serialization
\* of the whole in-memory document.
C7_FileIsSnapshotAfterEveryCall ==
    (last.op \in MutatingCalls /\ file[store[last.h].path].kind = "object") =>
        file[store[last.h].path] = Dump(store[last.h].data, heap)

\* C7 amended: at the return of every add, update and delete_task call that
\* wrote the file (each add, an update or delete_task that found its record)
\* the file holds the serialization of the whole in-memory document.
C7_FileIsSnapshotAfterEveryWrite ==
    (last.op \in MutatingCalls /\ (last.op \in AddCalls \/ last.found)) =>
        file[store[last.h].path] = Dump(store[last.h].data, heap)

\* C7's case: an update has replaced a record of a document that holds
\* records in all three collections, and the file holds them all.
C7_Witness ==
    /\ last.op = "update_user"
    /\ last.found
    /\ \A k \in Keys : store[1].data[k] # <<>>
    /\ store[1].data.users[1].name = Bo
    /\ file["store.json"] = Dump(store[1].data, heap)

\* C8: add_user, add_project and add_task append the entity's record as the
\* last of its collection, whatever ids and names the collection holds, and
\* leave the records before it and the other two collections as they were.
C8_AddAppends ==
    [][ last'.op \in AddCalls =>
           LET h == last'.h
               k == KeyOf(last'.op)
           IN /\ ~last'.raised
              /\ View(store', heap', h) =
                     [View(store, heap, h) EXCEPT
                        ![k] = Append(@, EntityJson(obj[last'.proc], heap))]
      ]_vars

\* C8's case: add_user has added a user whose id and name a stored user
\* already had, next to a project and a task.
C8_Witness ==
    /\ last.op = "add_user"
    /\ Len(store[1].data.users) = 2
    /\ store[1].data.users[1].id = store[1].data.users[2].id
    /\ store[1].data.users[1].name = store[1].data.users[2].name
    /\ store[1].data.projects # <<>>
    /\ store[1].data.tasks # <<>>

\* C9: update_<entity> of an entity whose id a stored record has replaces
\* the first record with that id by the entity's serialized form, in place:
\* every other record and the other two collections stay, and the lookup by
\* that id then yields the entity's values.
C9_UpdateReplacesFirstMatchInPlace ==
    [][ (last'.op \in UpdateCalls
            /\ obj[last'.proc].id \in Ids(store[last'.h].data[KeyOf(last'.op)])) =>
           LET h == last'.h
               k == KeyOf(last'.op)
               e == EntityJson(obj[last'.proc], heap)
               old == View(store, heap, h)
               new == View(store', heap', h)
           IN /\ ~last'.raised
              /\ new = [old EXCEPT ![k][FirstIndex(old[k], e.id)] = e]
              /\ new[k][FirstIndex(new[k], e.id)] = e
      ]_vars

\* C9's case: of two users with the same id, update_user has replaced the
\* first and left the second.
C9_Witness ==
    /\ last.op = "update_user"
    /\ last.found
    /\ Len(store[1].data.users) = 2
    /\ store[1].data.users[1].id = store[1].data.users[2].id
    /\ store[1].data.users[1].name = Bo
    /\ store[1].data.users[2].name = Al

\* C10: update_<entity> of an entity whose id no stored record has raises
\* nothing and changes neither the in-memory document nor the file.
C10_UpdateWithoutMatchIsNoOp ==
    [][ (last'.op \in UpdateCalls
            /\ obj[last'.proc].id \notin Ids(store[last'.h].data[KeyOf(last'.op)])) =>
           /\ ~last'.raised
           /\ ~last'.saved
           /\ store' = store
           /\ heap' = heap
           /\ file' = file
      ]_vars

\* C10's case: update_task of a task the store does not hold has returned,
\* and the store holds another task.
C10_Witness ==
    /\ last.op = "update_task"
    /\ ~last.found
    /\ store[1].data.tasks # <<>>
    /\ obj[1].id \notin Ids(store[1].data.tasks)

\* C11 as stated: once delete_task(id) has returned true, no task of the
\* store has that id, whatever add_task calls came before.
C11_DeletedIdIsAbsent ==
    (last.op = "delete_task" /\ last.found) =>
        last.arg \notin Ids(store[last.h].data.tasks)

\* C11 amended: delete_task(id) on an id some task record has returns true
\* and removes the first record with that id, and that record only: the
\* records before it stay, those after it move up by one, the users and the
\* projects stay. On an id no record has it returns false and changes neither
\* the document nor the file. So when one record had the id, none has it
\* afterwards and a second delete_task(id) returns false.
C11_DeleteRemovesFirstMatchOnly ==
    [][ last'.op = "delete_task" =>
           LET h == last'.h
               id == last'.arg
               old == View(store, heap, h)
               new == View(store', heap', h)
               holders == {i \in DOMAIN old.tasks : old.tasks[i].id = id}
           IN /\ ~last'.raised
              /\ last'.found = (holders # {})
              /\ holders = {} => (store' = store /\ heap' = heap /\ file' = file)
              /\ holders # {} =>
                    /\ new.users = old.users
                    /\ new.projects = old.projects
                    /\ Len(new.tasks) = Len(old.tasks) - 1
                    /\ \E i \in holders :
                          /\ \A j \in holders : i <= j
                          /\ \A j \in 1 .. (i - 1) : new.tasks[j] = old.tasks[j]
                          /\ \A j \in i .. Len(new.tasks) : new.tasks[j] = old.tasks[j + 1]
                    /\ Cardinality(holders) = 1 => id \notin Ids(store'[h].data.tasks)
      ]_vars

\* C11's case: two task records had the id 1 and delete_task(1) has returned
\* true: the second of them is left, in the store and in the file.
C11_Witness ==
    /\ last.op = "delete_task"
    /\ last.found
    /\ last.arg = 1
    /\ Len(store[1].data.tasks) = 1
    /\ store[1].data.tasks[1].id = 1
    /\ file["store.json"] = Dump(store[1].data, heap)

\* C12: a store constructed on the file right after an add, update or
\* delete_task call of the store that has written it holds the same records
\* in the same order with the same values, membership lists and status
\* included, as the writing store holds.
C12_ReopenedStoreHoldsWhatTheWriterHolds ==
    [][ (last'.op = "DataStore" /\ last'.h = 2 /\ last.op \in MutatingCalls /\ last.h = 1) =>
           /\ ~last'.raised
           /\ View(store', heap', 2) = View(store', heap', 1)
      ]_vars

\* An entity field by field, its membership list by value.
EntityValue(e, hp) ==
    CASE e.kind = "user" ->
           [id |-> e.id, name |-> e.name, email |-> e.email, projects |-> hp[e.projects]]
      [] e.kind = "project" ->
           [id |-> e.id, title |-> e.title, description |-> e.description,
            owner_id |-> e.owner_id, due_date |-> e.due_date, tasks |-> hp[e.tasks]]
      [] e.kind = "task" ->
           [id |-> e.id, title |-> e.title, status |-> e.status,
            project_id |-> e.project_id, assigned_to |-> hp[e.assigned_to]]

\* C13: from_dict(to_dict(E)) equals E field for field, whatever constructor
\* arguments, setters and membership calls have made E: id, name and email or
\* title, description, owner_id and due_date or title, status and project_id,
\* and the membership list.
C13_FromDictOfToDictIsTheEntity ==
    [][ last'.op = "from_dict" =>
           /\ ~last'.raised
           /\ obj'[last'.proc].kind = obj[last'.proc].kind
           /\ EntityValue(obj'[last'.proc], heap') = EntityValue(obj[last'.proc], heap)
      ]_vars

\* C13's case: a project with a due date and no task has been rebuilt from
\* its dict.
C13_Witness ==
    /\ last.op = "from_dict"
    /\ obj[1].kind = "project"
    /\ obj[1].due_date = Some(20250115)
    /\ heap[obj[1].tasks] = <<>>

\* t is v without its leading and trailing whitespace.
IsTrimOf(t, v) ==
    \E i, j \in DOMAIN v :
        /\ i <= j
        /\ ~IsSpace(v[i])
        /\ ~IsSpace(v[j])
        /\ \A k \in DOMAIN v : (k < i \/ k > j) => IsSpace(v[k])
        /\ t = SubSeq(v, i, j)

\* C16: the setters of User.name, Project.title and Task.title raise on a
\* value that is empty or all whitespace, the setter of User.email on a value
\* without "@"; the entity is then as it was. On any other value they raise
\* nothing and set the field to the value without the whitespace around it,
\* and nothing else changes.
C16_SettersValidateAndTrim ==
    [][ last'.op \in {"name", "title", "email"} =>
           LET p == last'.proc
               v == last'.val
               f == last'.op
               bad == IF f = "email" THEN "@" \notin Range(v)
                      ELSE \A i \in DOMAIN v : IsSpace(v[i])
           IN IF bad
              THEN last'.raised /\ obj' = obj /\ heap' = heap
              ELSE /\ ~last'.raised
                   /\ IsTrimOf(obj'[p][f], v)
                   /\ obj' = [obj EXCEPT ![p][f] = obj'[p][f]]
                   /\ heap' = heap
      ]_vars

\* C16's case: the title setter of a task has rejected a blank value and the
\* title is the one the task was constructed with.
C16_Witness ==
    /\ last.op = "title"
    /\ last.raised
    /\ last.val = Blanks
    /\ obj[1].kind = "task"
    /\ obj[1].title = Al

\* C17: the status setter raises on a value that is not pending, in_progress
\* or completed and leaves the status, and sets any of the three; Task() and
\* Task.from_dict raise nothing on such a value and give the task the status
\* pending; every task's status is one of the three after every call.
C17_StatusIsAlwaysValid ==
    [][ LET p == last'.proc
            valid == {"pending", "in_progress", "completed"}
        IN /\ \A q \in Procs : obj'[q].kind = "task" => obj'[q].status \in valid
           /\ last'.op = "status" =>
                 IF last'.val \in valid
                 THEN ~last'.raised /\ obj'[p].status = last'.val
                 ELSE last'.raised /\ obj' = obj
           /\ last'.op \in {"Task", "Task.from_dict"} =>
                 /\ ~last'.raised
                 /\ obj'[p].status = IF last'.val \in valid THEN last'.val ELSE "pending"
      ]_vars

\* C17's case: the status setter has rejected "bogus" on a completed task.
C17_Witness ==
    /\ last.op = "status"
    /\ last.raised
    /\ last.val = "bogus"
    /\ obj[1].kind = "task"
    /\ obj[1].status = "completed"

\* The membership list of an entity.
Members(e, hp) ==
    CASE e.kind = "user" -> hp[e.projects]
      [] e.kind = "project" -> hp[e.tasks]
      [] e.kind = "task" -> hp[e.assigned_to]
      [] OTHER -> <<>>

\* C18: a membership list never holds an id twice; add_project, add_task and
\* assign_user append an id the list does not hold and change nothing when it
\* holds it; remove_project, remove_task and unassign_user take the id out
\* and keep the order of the others. So the ids stand in the order of their
\* latest insertion that changed the list.
C18_MembershipListsAreOrderedSets ==
    [][ LET p == last'.proc
            x == last'.arg
            old == Members(obj[p], heap)
            new == Members(obj'[p], heap')
            Kept(y) == y # x
        IN /\ \A q \in Procs :
                 LET l == Members(obj'[q], heap')
                 IN \A i, j \in DOMAIN l : i # j => l[i] # l[j]
           /\ last'.op \in {"User.add_project", "Project.add_task", "assign_user"} =>
                 new = IF x \in Range(old) THEN old ELSE Append(old, x)
           /\ last'.op \in {"User.remove_project", "Project.remove_task", "unassign_user"} =>
                 new = SelectSeq(old, Kept)
      ]_vars

\* C18's case: after five calls a user's list is 2, 1 and the last call was
\* add_project(1).
C18_Witness ==
    /\ steps = 5
    /\ last.op = "User.add_project"
    /\ last.arg = 1
    /\ obj[1].kind = "user"
    /\ heap[obj[1].projects] = <<2, 1>>

\* The entity from_dict makes of the stored record r of collection k, field
\* by field.
Stored(r, k) ==
    CASE k = "users" -> r
      [] k = "projects" ->
           [r EXCEPT !.due_date = IF r.due_date = None THEN None ELSE ParsedDate(r.due_date[1])]
      [] k = "tasks" -> r

\* C14: get_user_by_id, get_project_by_id and get_task_by_id return the
\* first record, in storage order, whose id is the argument;
\* get_user_by_name and get_project_by_title the first whose name or title
\* is the argument up to letter case. They return one entity or, when no
\* record matches, None, and raise nothing.
C14_LookupsReturnTheFirstMatch ==
    [][ last'.op \in {"get_user_by_id", "get_project_by_id", "get_task_by_id",
                      "get_user_by_name", "get_project_by_title"} =>
           LET h == last'.h
               p == last'.proc
               k == CASE last'.op \in {"get_user_by_id", "get_user_by_name"} -> "users"
                      [] last'.op \in {"get_project_by_id", "get_project_by_title"} -> "projects"
                      [] last'.op = "get_task_by_id" -> "tasks"
               recs == View(store, heap, h)[k]
               Matches(r) ==
                   CASE last'.op = "get_user_by_name" -> Lower(r.name) = Lower(last'.val)
                     [] last'.op = "get_project_by_title" -> Lower(r.title) = Lower(last'.val)
                     [] OTHER -> r.id = last'.arg
               hits == {i \in DOMAIN recs : Matches(recs[i])}
           IN /\ ~last'.raised
              /\ last'.found = (hits # {})
              /\ hits = {} => obj'[p] = NoEntity
              /\ hits # {} =>
                    \E i \in hits :
                        /\ \A j \in hits : i <= j
                        /\ EntityValue(obj'[p], heap') = Stored(recs[i], k)
      ]_vars

\* C14's case: three users are stored, the second and the third with id 1;
\* get_user_by_name with a name in another letter case has returned the
\* first user, whose id is 2.
C14_Witness ==
    /\ last.op = "get_user_by_name"
    /\ last.val = <<"a", "l">>
    /\ last.found
    /\ Len(store[1].data.users) = 3
    /\ store[1].data.users[2].id = store[1].data.users[3].id
    /\ obj[1].id = 2
    /\ obj[1].name = Al

\* C15: get_projects_by_user(u) and get_tasks_by_project(p) return the
\* records whose owner_id is u, whose project_id is p: every one of them, no
\* other, in storage order, and nothing when there is none.
C15_ForeignKeyLookupsReturnAllMatches ==
    [][ last'.op \in {"get_projects_by_user", "get_tasks_by_project"} =>
           LET h == last'.h
               k == IF last'.op = "get_projects_by_user" THEN "projects" ELSE "tasks"
               recs == View(store, heap, h)[k]
               Key(r) == IF k = "projects" THEN r.owner_id ELSE r.project_id
               hits == {i \in DOMAIN recs : Key(recs[i]) = last'.arg}
               res == last'.result
           IN /\ ~last'.raised
              /\ Len(res) = Cardinality(hits)
              /\ \A i \in hits :
                    res[Cardinality({j \in hits : j <= i})] = Stored(recs[i], k)
      ]_vars

\* C15's case: get_tasks_by_project(1) has returned the first and the third
\* of three stored tasks.
C15_Witness ==
    /\ last.op = "get_tasks_by_project"
    /\ last.arg = 1
    /\ Len(store[1].data.tasks) = 3
    /\ store[1].data.tasks[2].project_id = 2
    /\ Len(last.result) = 2
    /\ last.result[1].id = store[1].data.tasks[1].id
    /\ last.result[2].id = store[1].data.tasks[3].id

\* C19: whether the write in save() succeeds or fails, add_<entity>,
\* update_<entity> and delete_task raise nothing and the in-memory document
\* gets the change: the record appended, the first match replaced, the
\* first match removed with delete_task reporting it found. A write that
\* fails leaves the file as it was or empty; a write that succeeds leaves
\* the whole in-memory document in the file, earlier changes included.
C19_FailedWriteKeepsTheMutation ==
    [][ last'.op \in MutatingCalls =>
           LET h == last'.h
               k == KeyOf(last'.op)
               old == View(store, heap, h)
               new == View(store', heap', h)
               e == EntityJson(obj[last'.proc], heap)
           IN /\ ~last'.raised
              /\ last'.op \in AddCalls => new = [old EXCEPT ![k] = Append(@, e)]
              /\ (last'.op \in UpdateCalls /\ e.id \in Ids(old[k])) =>
                    new = [old EXCEPT ![k][FirstIndex(old[k], e.id)] = e]
              /\ last'.op = "delete_task" =>
                    /\ last'.found = (last'.arg \in Ids(old.tasks))
                    /\ last'.found =>
                          new = [old EXCEPT !.tasks = RemoveAt(@, FirstIndex(@, last'.arg))]
              /\ IF last'.saved
                 THEN file'[store[h].path] = Document(new)
                 ELSE file'[store[h].path] \in {file[store[h].path], Blank}
      ]_vars

\* C19's case: delete_task has found and removed the only task and its write
\* has failed: it has reported true, and the file still holds the task.
C19_Witness ==
    /\ last.op = "delete_task"
    /\ last.found
    /\ ~last.saved
    /\ store[1].data.tasks = <<>>
    /\ file["store.json"].kind = "object"
    /\ Len(file["store.json"].doc.tasks) = 1

\* C20 as stated: whenever a write of one of two stores on the same file
\* completes and no other write is under way, the file holds the in-memory
\* document of the store that wrote last, all three collections of it.
C20_LastWriterWins ==
    [][ (last'.op = "save" /\ \A q \in Procs : writing'[q] = None) =>
           /\ file'["store.json"] = Dump(store'[last'.h].data, heap')
           /\ DOMAIN file'["store.json"].doc = Keys
      ]_vars

\* C20, amended: when the write of a store starts after and completes
\* before every write of the other store on the same file (the file is
\* still empty as open() left it and the other process is not in save()),
\* the file then holds the in-memory document of the store that wrote, all
\* three collections of it, whatever the other store has written before.
C20_LastWriterWinsWhenWritesDoNotOverlap ==
    [][ (/\ last'.op = "save"
         /\ file["store.json"] = Blank
         /\ \A q \in Procs : writing'[q] = None) =>
           /\ file'["store.json"] = Dump(store'[last'.h].data, heap')
           /\ DOMAIN file'["store.json"].doc = Keys
      ]_vars

\* C20's case: both stores loaded the seeded file; store 1 added a user and
\* wrote, then store 2 deleted the task and wrote: the file is store 2's
\* document, without the user store 1 added.
C20_Witness ==
    /\ last.op = "save"
    /\ last.proc = 2
    /\ \A q \in Procs : writing[q] = None
    /\ store[1].live /\ store[2].live
    /\ Len(store[1].data.users) = 2
    /\ Len(store[2].data.users) = 1
    /\ store[2].data.tasks = <<>>
    /\ file["store.json"] = Dump(store[2].data, heap)
    /\ Len(file["store.json"].doc.users) = 1

\* C21: a class counter of a running process never decreases, whatever is
\* constructed and whichever store is loaded.
C21_CountersNeverDecrease ==
    [][ last'.op # "exit" =>
           \A p \in Procs, k \in Keys : counter'[p][k] >= counter[p][k] ]_vars

\* C23: after the load of a JSON object that raised nothing and left a
\* collection empty, the class counter of that collection's type is 1.
C23_EmptyCollectionLeavesCounterAtOne ==
    [][ (/\ last'.op = "DataStore"
         /\ ~last'.raised
         /\ file[store'[last'.h].path].kind = "object") =>
           \A k \in Keys :
               store'[last'.h].data[k] = <<>> => counter'[last'.proc][k] = 1 ]_vars

\* What a constructor of the type whose records are in collection k has done
\* when called with the explicit id e, or with none.
Constructed(k, e) ==
    /\ obj'[1].id = IF e = None THEN counter[1][k] ELSE e[1]
    /\ counter'[1][k] = IF e = None THEN counter[1][k] + 1
                        ELSE IF e[1] >= counter[1][k] THEN e[1] + 1
                        ELSE counter[1][k]
    /\ \A j \in Keys \ {k} : counter'[1][j] = counter[1][j]

\* C22: a constructor called with the explicit id k gives the entity the id
\* k and leaves the counter of its type at the larger of the counter and
\* k + 1; called without explicit id it gives the entity the counter's value
\* and advances the counter by one. The other counters stay.
C22_ConstructorAdvancesCounter ==
    [][ \A e \in ExplicitIds :
           /\ (last'.op = "User" /\ NewUser(1, Al, Mail, e)) => Constructed("users", e)
           /\ (last'.op = "Project" /\ NewProject(1, Al, Docs, 1, None, e)) =>
                  Constructed("projects", e)
           /\ (/\ last'.op = "Task"
               /\ NewTask(1, Al, 1, IF e = None THEN "pending" ELSE "completed", e)) =>
                  Constructed("tasks", e)
      ]_vars

\* C22's cases: a user has been constructed with the explicit id 3, above
\* the counter, which became 4, and then one with the explicit id 1, below
\* the counter, which stayed.
C22_Witness ==
    /\ last.op = "User"
    /\ obj[1].id = 1
    /\ counter[1].users = 4
    /\ steps = 2

\* C24: in a store constructed once, whose tasks are all constructed
\* without explicit id, no two tasks have the same id, whichever other
\* store the process loads from another file in between.
C24_IdsOfOneStoreUnaffectedByAnother ==
    store[1].live => NoDuplicateIds(store[1].data.tasks)

\* The document the commands have left in store.json.
OnDisk == IF file["store.json"].kind = "object" THEN file["store.json"].doc ELSE EmptyData

\* C25: every stored user has a non-empty trimmed name and a trimmed email
\* that contains "@", and every stored project and task a non-empty trimmed
\* title, whatever arguments the commands that created them were given.
C25_StoredNamesAreValid ==
    /\ \A i \in DOMAIN OnDisk.users :
           /\ OnDisk.users[i].name # <<>>
           /\ Strip(OnDisk.users[i].name) = OnDisk.users[i].name
           /\ "@" \in Range(OnDisk.users[i].email)
           /\ Strip(OnDisk.users[i].email) = OnDisk.users[i].email
    /\ \A i \in DOMAIN OnDisk.projects :
           /\ OnDisk.projects[i].title # <<>>
           /\ Strip(OnDisk.projects[i].title) = OnDisk.projects[i].title
    /\ \A i \in DOMAIN OnDisk.tasks :
           /\ OnDisk.tasks[i].title # <<>>
           /\ Strip(OnDisk.tasks[i].title) = OnDisk.tasks[i].title

\* C28: after any sequence of commands on a store that was empty at first,
\* every project's owner is a stored user whose projects hold the project's
\* id, every task's project is a stored project whose tasks hold the task's
\* id, and every assignee of a task is a stored user.
C28_ReferencesResolve ==
    /\ \A i \in DOMAIN OnDisk.projects :
           \E j \in DOMAIN OnDisk.users :
               /\ OnDisk.users[j].id = OnDisk.projects[i].owner_id
               /\ OnDisk.projects[i].id \in Range(OnDisk.users[j].projects)
    /\ \A i \in DOMAIN OnDisk.tasks :
           /\ \E j \in DOMAIN OnDisk.projects :
                  /\ OnDisk.projects[j].id = OnDisk.tasks[i].project_id
                  /\ OnDisk.tasks[i].id \in Range(OnDisk.projects[j].tasks)
           /\ Range(OnDisk.tasks[i].assigned_to) \subseteq Ids(OnDisk.users)

C28_Witness ==
    /\ last.op = "complete-task"
    /\ last.found
    /\ \E i \in DOMAIN OnDisk.tasks :
           /\ OnDisk.tasks[i].status = "completed"
           /\ OnDisk.tasks[i].assigned_to # <<>>
    /\ \E i \in DOMAIN OnDisk.users : OnDisk.users[i].projects # <<>>

\* The place of the first of the names that names the user u, 0 if none does.
FirstNaming(names, u) ==
    IF \E n \in DOMAIN names : Lower(names[n]) = Lower(u.name)
    THEN CHOOSE n \in DOMAIN names :
             /\ Lower(names[n]) = Lower(u.name)
             /\ \A m \in 1..(n - 1) : Lower(names[m]) # Lower(u.name)
    ELSE 0

\* C29: add-task that finds its project creates the task, stores it and
\* links it to the project whether or not the names it was given to assign
\* name users; the task's assigned_to holds the ids of the named users that
\* exist, each once, in the order the names were given.
C29_UnknownAssigneesAreSkipped ==
    [][last'.op = "add-task" /\ last'.found =>
         LET users == OnDisk.users
             names == IF last'.val = None THEN <<>> ELSE last'.val[1]
             t == OnDisk'.tasks[Len(OnDisk'.tasks)]
             at(id) == FirstNaming(names, users[FirstIndex(users, id)])
         IN /\ Len(OnDisk'.tasks) = Len(OnDisk.tasks) + 1
            /\ t.id = last'.arg
            /\ \E j \in DOMAIN OnDisk'.projects :
                   /\ OnDisk'.projects[j].id = t.project_id
                   /\ t.id \in Range(OnDisk'.projects[j].tasks)
            /\ Range(t.assigned_to) =
                   {users[i].id : i \in {j \in DOMAIN users : FirstNaming(names, users[j]) # 0}}
            /\ \A a, b \in DOMAIN t.assigned_to :
                   a < b => at(t.assigned_to[a]) < at(t.assigned_to[b])
    ]_vars

C29_Witness ==
    /\ last.op = "add-task"
    /\ last.found
    /\ last.val = Some(<<Zed, Bo, Lower(Al), Zed, Al, Bo>>)
    /\ Len(OnDisk.tasks[Len(OnDisk.tasks)].assigned_to) = 2
    /\ last.arg \in Range(OnDisk.projects[1].tasks)

\* C26: a store constructed on a JSON object that lacks some of the keys
\* users, projects, tasks holds an empty collection for each key the file
\* lacks and, for each key the file has, the collection exactly as stored;
\* the counter of each collection the file has, if it is not empty, is one
\* more than its largest id.
C26_MissingKeysAreSynthesizedEmpty ==
    [][(last'.op = "DataStore" /\ ~last'.raised) =>
         LET fc == file[store'[last'.h].path]
             v == View(store', heap', last'.h)
         IN (fc.kind = "object" /\ DOMAIN fc.doc # Keys) =>
                /\ DOMAIN v = Keys
                /\ \A k \in Keys \ DOMAIN fc.doc : v[k] = <<>>
                /\ \A k \in DOMAIN fc.doc :
                       /\ v[k] = fc.doc[k]
                       /\ fc.doc[k] # <<>> =>
                              counter'[last'.proc][k] = SetMax(Ids(fc.doc[k])) + 1
    ]_vars

\* C26's case: the store has loaded the file that holds nothing but one task
\* with id 2.
C26_Witness ==
    /\ last.op = "DataStore"
    /\ ~last.raised
    /\ store[last.h].path = "store.json"
    /\ file["store.json"] = TasksOnlyFile
    /\ View(store, heap, last.h) =
           [users |-> <<>>, projects |-> <<>>, tasks |-> TasksOnlyFile.doc.tasks]
    /\ counter[last.proc].tasks = 3

\* C27: constructing a project and assigning its due date raise nothing,
\* whatever string is given; a string that does not parse leaves the due date
\* absent, also when the project had one before, and a string that parses
\* leaves a date that to_dict gives as an ISO-8601 string.
C27_DueDateDegradesToAbsent ==
    [][/\ last'.op \in {"Project", "due_date"} => ~last'.raised
       /\ \A due \in {"soon", "2024-12-31", "99999999999999999999999"} :
              (last'.op = "Project" /\ NewProject(1, Al, Docs, 1, Some(due), None)) =>
                  /\ obj'[1].kind = "project"
                  /\ ProjectToDict(obj'[1]).due_date =
                         IF due = "2024-12-31" THEN Some("2024-12-31T00:00:00") ELSE None
       /\ last'.op = "due_date" =>
              ProjectToDict(obj'[last'.proc]).due_date =
                  IF last'.val = "2025-01-15" THEN Some("2025-01-15T00:00:00") ELSE None
    ]_vars

\* C30: a membership mutator called on an entity leaves the in-memory
\* document of every store as it was, whether the entity was passed to an
\* add_ operation or returned by a get_ operation before.
C30_MutatorsLeaveTheStoreAlone ==
    [][last'.op \in {"User.add_project", "User.remove_project", "Project.add_task",
                     "Project.remove_task", "assign_user", "unassign_user"} =>
           \A h \in Handles :
               store[h].live => View(store', heap', h) = View(store, heap, h)
      ]_vars

\* C31: every get_ operation, of all records, by id, by name or title and by
\* foreign key, whether it finds a record or not, leaves the file and the
\* in-memory document of every store as they were.
C31_ReadsChangeNothingStored ==
    [][last'.op \in {"get_users", "get_projects", "get_tasks", "get_user_by_id",
                     "get_project_by_id", "get_task_by_id", "get_user_by_name",
                     "get_project_by_title", "get_projects_by_user",
                     "get_tasks_by_project"} =>
           /\ ~last'.raised
           /\ file' = file
           /\ \A h \in Handles :
                  /\ store'[h].live = store[h].live
                  /\ store[h].live => View(store', heap', h) = View(store, heap, h)
      ]_vars

\* C31's cases: get_tasks has returned both tasks of the store that holds
\* what its file holds; get_user_by_name has found no user of that store.
C31_Witness ==
    /\ file["store.json"] = QueryFile
    /\ Document(View(store, heap, 1)) = QueryFile
    /\ \/ last.op = "get_tasks" /\ Len(last.result) = 2
       \/ last.op = "get_user_by_name" /\ ~last.found /\ last.val = Bo

\* C32: a command that does not find its target (add-project its user,
\* add-task its project, complete-task and update-task-status their task) or
\* that finds the name or title it was to add (add-user, add-project), run on
\* a file that holds a JSON object, leaves the file as it was, and with it
\* the ids the next commands will give.
C32_FailedCommandChangesNothing ==
    [][(/\ last'.op \in {"add-user", "add-project", "add-task", "complete-task",
                         "update-task-status"}
        /\ ~last'.found
        /\ file["store.json"].kind = "object") =>
           /\ file' = file
           /\ Started(file'["store.json"]).counter = Started(file["store.json"]).counter
      ]_vars

\* C32's case: complete-task was given an id that no task has, on a store
\* that holds a user, a project and a task.
C32_Witness ==
    /\ last.op = "complete-task"
    /\ ~last.found
    /\ last.arg = 2
    /\ OnDisk.users # <<>>
    /\ OnDisk.projects # <<>>
    /\ Ids(OnDisk.tasks) = {1}

\* C33: after any sequence of commands on a store that was empty at first,
\* no two stored users have names that are equal but for the case of their
\* letters, and no two stored projects have such titles.
C33_NamesAndTitlesAreUnique ==
    /\ \A i, j \in DOMAIN OnDisk.users :
           i # j => Lower(OnDisk.users[i].name) # Lower(OnDisk.users[j].name)
    /\ \A i, j \in DOMAIN OnDisk.projects :
           i # j => Lower(OnDisk.projects[i].title) # Lower(OnDisk.projects[j].title)

\* C33's case: add-user was given "al" when the store held the users Al and
\* Bo and a project, and has added nothing.
C33_Witness ==
    /\ last.op = "add-user"
    /\ ~last.found
    /\ last.val = Lower(Al)
    /\ Len(OnDisk.users) = 2
    /\ OnDisk.users[1].name = Al
    /\ OnDisk.projects # <<>>

\* C34: remove_project, remove_task and unassign_user raise nothing; they
\* take the given id out of a list that holds it and leave the other ids in
\* their order, and change nothing in a list that does not hold it. Adding
\* an id to a list that does not hold it and removing it again gives the
\* list as it was.
C34_RemovalKeepsOrderOrIsNoOp ==
    [][last'.op \in {"User.remove_project", "Project.remove_task", "unassign_user"} =>
           LET p == last'.proc
               x == last'.arg
               old == Members(obj[p], heap)
               new == Members(obj'[p], heap')
               a == CASE obj[p].kind = "user" -> obj[p].projects
                      [] obj[p].kind = "project" -> obj[p].tasks
                      [] obj[p].kind = "task" -> obj[p].assigned_to
               Kept(y) == y # x
           IN /\ ~last'.raised
              /\ x \notin Range(new)
              /\ new = SelectSeq(old, Kept)
              /\ x \notin Range(old) => new = old
              /\ RemoveValue(AppendNew(heap', a, x), a, x)[a] = new
      ]_vars

\* C34's case: unassign_user(2) has taken the first of three ids out of a
\* task's list.
C34_Witness ==
    /\ last.op = "unassign_user"
    /\ last.arg = 2
    /\ obj[1].kind = "task"
    /\ heap[obj[1].assigned_to] = <<1, 3>>

\* C35: from any status mark_completed, mark_in_progress and mark_pending
\* give a task the status completed, in_progress and pending and change
\* nothing else; the status setter takes any of the three values whatever
\* the status is; complete-task run a second time on the same task leaves
\* the file as the first run left it.
C35_StatusTransitionsAreFree ==
    [][LET p == last'.proc
       IN /\ \A to \in VALID_STATUSES :
                 last'.op = "mark_" \o to =>
                     /\ ~last'.raised
                     /\ obj' = [obj EXCEPT ![p].status = to]
                     /\ heap' = heap
                     /\ file' = file
          /\ (last'.op = "status" /\ last'.val \in VALID_STATUSES) =>
                 /\ ~last'.raised
                 /\ obj' = [obj EXCEPT ![p].status = last'.val]
          /\ (/\ last.op = "complete-task" /\ last.found
              /\ last'.op = "complete-task" /\ last'.arg = last.arg) =>
                 /\ last'.found
                 /\ file' = file
      ]_vars

\* C35's case: complete-task has found task 1, which is completed in a file
\* that no other command has changed, and no task has been constructed.
C35_Witness ==
    /\ steps = 2
    /\ last.op = "complete-task"
    /\ last.found
    /\ last.arg = 1
    /\ obj[1] = NoEntity
    /\ OnDisk.tasks = [TwoTasksFile.doc.tasks EXCEPT ![1].status = "completed"]

====
